---- MODULE Spec2Model ----
(***************************************************************************)
(* Model of the embedding core of godot-wasm (src/src/wasm_instance.rs):   *)
(* the WasmInstance host object, its one-shot initialization cell, and the *)
(* Store mutex with the acquire_store / release_store reentrancy pair.     *)
(*                                                                         *)
(* Host threads call the public operations of one WasmInstance.  Every     *)
(* thread has a program counter and a stack of the acquire_store and       *)
(* release_store activations it is inside of.                              *)
(***************************************************************************)
EXTENDS Naturals, Integers, Sequences, FiniteSets, TLC

(***************************************************************************)
(* Bounds of the model.                                                    *)
(***************************************************************************)
\* Number of host threads that call into the same WasmInstance.
NThreads == 2
\* Largest number of acquire_store activations nested on one thread.
MaxDepth == 2

Threads == 1..NThreads

(***************************************************************************)
(* Values.                                                                 *)
(***************************************************************************)
\* InnerLock.mutex_raw: ptr::null() or the address of the Store mutex.
Null == "null"
Raw == "raw"

\* OnceCell<InstanceData>: empty.
NoData == "none"
\* Option<Memory>: None.
NoMemory == "None"
\* Option<String>: None.
NoSignal == "None"

\* Modules handed to initialize.  The first two instantiate; the others fail
\* in InstanceData::instantiate.
Modules == {"core_mem", "core_aux", "invalid", "component", "unknown_import", "trap"}
\* Names a memory can be exported under, and one that no module exports.
MemNames == {"memory", "aux", "missing"}
MEMORY_EXPORT == "memory"
\* The host argument of initialize: nil, a Dictionary, or any other Variant.
HostKinds == {"nil", "dict", "other"}
Messages == {"m1"}

\* Memory exports of a module's instance.
MemoryExports(m) ==
  CASE m = "core_mem" -> {"memory", "aux"}
    [] m = "core_aux" -> {"aux"}
    [] OTHER -> {}

\* Variant: any memory the instance exports is taken when the name is missing.
GetMemoryExportAny(m, name) ==
  IF name \in MemoryExports(m) THEN name
  ELSE IF MemoryExports(m) # {} THEN CHOOSE n \in MemoryExports(m) : TRUE
  ELSE NoMemory

\* Instance::get_memory(store, name): Some(memory) when exported under name.
GetMemoryExport(m, name) == IF name \in MemoryExports(m) THEN name ELSE NoMemory

\* Result of InstanceData::instantiate for a module: "ok" or its error.
InstantiateResult(m) ==
  CASE m = "invalid" -> "Uncompiled module"
    [] m = "component" -> "Cannot instantiate component"
    [] m = "unknown_import" -> "Unknown import"
    [] m = "trap" -> "Trap in start"
    [] OTHER -> "ok"

\* Operations of WasmInstance that run their body inside acquire_store.
GuestOps == {"call_wasm", "invoke"}
LockedOps == GuestOps \cup {"bind_wasm_callable", "signal_error", "signal_error_cancel",
                            "reset_epoch", "registry_op", "has_memory",
                            "memory_set_name", "memory_op"}
\* Operations that only read the published instance data.
UnlockedOps == {"get_module"}
Ops == LockedOps \cup UnlockedOps

\* What the closure an operation passes to acquire_store does: run a guest
\* export, read or write the fields modelled here, or neither.
PlainOps == {"bind_wasm_callable", "reset_epoch", "registry_op"}
OpClass(op) ==
  CASE op \in GuestOps -> "guest"
    [] op \in PlainOps -> "plain"
    [] OTHER -> op

\* Arguments an operation is called with (only some operations read them).
OpArgs(op) ==
  CASE op = "signal_error" -> Messages
    [] op = "memory_set_name" -> MemNames
    [] OTHER -> {"-"}

VARIABLES
  cell,          \* state of the OnceCell: "incomplete", "running", "complete"
  data,          \* WasmInstance.data: NoData or the published InstanceData
  memory,        \* WasmInstance.memory: Option<Memory>
  locked,        \* InstanceData.store: the raw mutex bit
  mutex_raw,     \* StoreData.inner_lock.mutex_raw
  error_signal,  \* StoreData.error_signal
  pc,            \* per thread: where it is
  stack,         \* per thread: its acquire_store / release_store activations
  cur,           \* per thread: the call it is making
  ret,           \* what the last step returned to its caller, if it was a return
  held,          \* per thread: it locked the mutex and has not unlocked it
  everFailed     \* history: the closure of some initialize call returned Err

vars == <<cell, data, memory, locked, mutex_raw, error_signal, pc, stack, cur, ret, held,
          everFailed>>
instanceVars == <<cell, data, memory>>
storeVars == <<locked, mutex_raw, error_signal>>

NoCall == [op |-> "none", arg |-> "-", pre |-> FALSE]
NoRet == [t |-> 0, op |-> "none", h |-> "-", ok |-> TRUE, err |-> "", val |-> "none",
          pre |-> FALSE, ran |-> FALSE, seen |-> NoData]

(***************************************************************************)
(* State of the other parts of the instance, each exercised by a           *)
(* specification of its own further down: the import resolver of           *)
(* InstanceData::instantiate_wasm, the resource limiter MemoryLimit, and    *)
(* the linear memory behind the memory accessors.                          *)
(***************************************************************************)
VARIABLES
  graph,         \* the modules reachable from the root: imports, tables, exports
  host,          \* the host function table: the (namespace, name) pairs it has
  config,        \* Config: extern_bind and with_wasi
  frames,        \* the activations of instantiate_wasm, innermost last
  insts,         \* insts: HashMap<InstanceId, InstanceWasm>
  made,          \* history: the module of every InstanceWasm::new, in order
  result         \* what InstanceData::instantiate returned, once it has

linkVars == <<graph, host, config, frames, insts, made, result>>

VARIABLES
  max_memory,         \* MemoryLimit.max_memory: remaining allowance
  max_table_entries,  \* MemoryLimit.max_table_entries: remaining allowance
  sizes,              \* current size of the guest's memory and of its table
  seed,               \* history: the two counters as from_config set them
  granted,            \* history: sum of the deltas granted, per kind
  lret                \* the last growth request and the answer it got

limitVars == <<max_memory, max_table_entries, sizes, seed, granted, lret>>

VARIABLES
  mem,              \* mem.data(store): the bytes of the bound memory
  overflow_checks,  \* the build: arithmetic overflow panics (TRUE) or wraps
  mret              \* the last memory accessor called and what it returned

memVars == <<mem, overflow_checks, mret>>

VARIABLES
  resources,  \* the resource table of GodotCtx: the packed array behind each handle
  filter,  \* the capability filter: the (interface, method) pairs disabled
  pret     \* the last array adapter operation called and what it returned

packVars == <<resources, filter, pret>>

VARIABLES
  object_registry,  \* StoreData.object_registry: None, or the slots by handle
  rret              \* the last registry operation called and what it returned

regVars == <<object_registry, rret>>

VARIABLES
  calls  \* history: the signal_error / signal_error_cancel calls made, in order

sigVars == <<calls>>

VARIABLES
  externs,  \* the references the guest holds: Option<ExternRef> per slot
  origin,   \* history: per slot, the Variant encoded into it, if one was
  xret      \* the last conversion called and what it returned

refVars == <<externs, origin, xret>>

VARIABLES
  epoch,           \* the engine's epoch counter, incremented by the ticking thread
  epoch_timeout,   \* StoreData.epoch_timeout
  epoch_deadline,  \* the Store's epoch deadline
  trapping,        \* the Store traps a guest at a yield point past the deadline
  activ,           \* the guest calls in progress, innermost last
  eret             \* the last step of a guest call and how it ended

epochVars == <<epoch, epoch_timeout, epoch_deadline, trapping, activ, eret>>

VARIABLES
  globals,   \* what the guest keeps in its Store: here, how often it has run
  callable,  \* the Callable bind_wasm_callable returned last
  cret       \* the last guest call through call_wasm or a callable, and its outcome

callVars == <<globals, callable, cret>>

VARIABLES
  items,            \* the elements of the VariantArray behind the reference
  overflow_panics,  \* the build: i32 arithmetic overflow panics (TRUE) or wraps
  aret              \* the last arr.* function called and how it ended

arrVars == <<items, overflow_panics, aret>>

VARIABLES
  defined,  \* the linker: the (namespace, name) pairs defined so far
  allow_shadowing,  \* the linker: a second definition replaces the first
  at_def,   \* register_functions: how many of its func_wrap calls have run
  dret      \* register_functions: "none" while it runs, then "done" or "panic"

defVars == <<defined, allow_shadowing, at_def, dret>>

\* The groups added after the memory, and for each what lies outside it.
extVars == <<packVars, regVars, sigVars, refVars, epochVars,
            callVars, arrVars, defVars>>
packRest ==
  <<linkVars, limitVars, memVars, regVars, sigVars,
    refVars, epochVars, callVars, arrVars, defVars>>
regRest ==
  <<limitVars, memVars, packVars, sigVars,
    refVars, epochVars, callVars, arrVars, defVars>>
sigRest ==
  <<linkVars, limitVars, memVars, packVars, regVars,
    refVars, epochVars, callVars, arrVars, defVars>>
refRest ==
  <<linkVars, limitVars, memVars, packVars, regVars,
    sigVars, epochVars, callVars, arrVars, defVars>>
epochRest ==
  <<linkVars, limitVars, memVars, packVars, regVars,
    sigVars, refVars, callVars, arrVars, defVars>>
callRest ==
  <<linkVars, limitVars, memVars, packVars, regVars,
    sigVars, refVars, epochVars, arrVars, defVars>>
arrRest ==
  <<linkVars, limitVars, memVars, packVars, regVars,
    sigVars, refVars, epochVars, callVars, defVars>>
defRest ==
  <<linkVars, limitVars, memVars, packVars, regVars,
    sigVars, refVars, epochVars, callVars, arrVars>>
auxVars == <<linkVars, limitVars, memVars, extVars>>

NoResult == [state |-> "none", err |-> "", mod |-> "", ns |-> "", name |-> "", inst |-> 0]

\* No instantiate call is being followed.
LinkIdle ==
  /\ graph = <<>>
  /\ host = {}
  /\ config = [extern_bind |-> "None", with_wasi |-> FALSE]
  /\ frames = <<>>
  /\ insts = {}
  /\ made = <<>>
  /\ result = NoResult

\* Option<usize>: None, Some(v).
None == [some |-> FALSE, v |-> 0]
Some(v) == [some |-> TRUE, v |-> v]

NoRequest == [kind |-> "none", current |-> 0, desired |-> 0, max |-> None, grant |-> FALSE]

\* No limiter is being followed.
LimitIdle ==
  /\ max_memory = 0
  /\ max_table_entries = 0
  /\ sizes = [memory |-> 0, table |-> 0]
  /\ seed = [memory |-> 0, table |-> 0]
  /\ granted = [memory |-> 0, table |-> 0]
  /\ lret = NoRequest

NoAccess == [op |-> "none", w |-> 0, i |-> 0, n |-> 0, v |-> 0, st |-> "ok",
             num |-> 0, bytes |-> <<>>]

\* No memory is being followed.
MemIdle ==
  /\ mem = <<>>
  /\ overflow_checks = FALSE
  /\ mret = NoAccess

NoPacked == [op |-> "none", t |-> "", h |-> 0, b |-> 0, e |-> 0, v |-> <<>>,
             st |-> "ok", seq |-> <<>>, num |-> 0]

\* No array adapter is being followed.
PackIdle ==
  /\ resources = <<>>
  /\ filter = {}
  /\ pret = NoPacked

NoRegistry == "None"
NilVariant == "nil"
NoRegistryCall == [op |-> "none", ix |-> 0, obj |-> NilVariant, st |-> "ok",
                   val |-> NilVariant, h |-> 0]

\* No registry is being followed.
RegIdle ==
  /\ object_registry = NoRegistry
  /\ rret = NoRegistryCall

\* No signal call is being followed.
SigIdle == calls = <<>>

\* Option<ExternRef>: None.
NullRef == [payload |-> "null", v |-> "-"]
NoConversion == [op |-> "none", ty |-> "-", v |-> "-", ref |-> NullRef, from |-> "-",
                 st |-> "ok", val |-> "-"]

\* No reference is being followed.
RefIdle ==
  /\ externs = <<>>
  /\ origin = <<>>
  /\ xret = NoConversion

NoStep == [op |-> "none", st |-> "ok", at |-> 0, was |-> 0]

\* No guest call is being followed.
EpochIdle ==
  /\ epoch = 0
  /\ epoch_timeout = 0
  /\ epoch_deadline = 0
  /\ trapping = FALSE
  /\ activ = <<>>
  /\ eret = NoStep

NoCallable == [valid |-> FALSE, name |-> "-"]
NoGuestCall == [op |-> "none", name |-> "-", args |-> <<>>, st |-> "ok", err |-> "",
                val |-> <<>>]

\* No guest call is being compared.
CallIdle ==
  /\ globals = 0
  /\ callable = NoCallable
  /\ cret = NoGuestCall

NoArrCall == [op |-> "none", i |-> 0, n |-> 0, x |-> NullRef, st |-> "ok", num |-> 0,
              val |-> NullRef]

\* No array reference is being followed.
ArrIdle ==
  /\ items = <<>>
  /\ overflow_panics = FALSE
  /\ aret = NoArrCall

\* No registration is being followed.
DefIdle ==
  /\ defined = {}
  /\ allow_shadowing = FALSE
  /\ at_def = 0
  /\ dret = "none"

ExtIdle ==
  PackIdle /\ RegIdle /\ SigIdle /\ RefIdle
  /\ EpochIdle /\ CallIdle /\ ArrIdle /\ DefIdle
PackRestIdle ==
  LinkIdle /\ LimitIdle /\ MemIdle /\ RegIdle /\ SigIdle
  /\ RefIdle /\ EpochIdle /\ CallIdle /\ ArrIdle /\ DefIdle
RegRestIdle ==
  LimitIdle /\ MemIdle /\ PackIdle /\ SigIdle
  /\ RefIdle /\ EpochIdle /\ CallIdle /\ ArrIdle /\ DefIdle
SigRestIdle ==
  LinkIdle /\ LimitIdle /\ MemIdle /\ PackIdle /\ RegIdle
  /\ RefIdle /\ EpochIdle /\ CallIdle /\ ArrIdle /\ DefIdle
RefRestIdle ==
  LinkIdle /\ LimitIdle /\ MemIdle /\ PackIdle /\ RegIdle
  /\ SigIdle /\ EpochIdle /\ CallIdle /\ ArrIdle /\ DefIdle
EpochRestIdle ==
  LinkIdle /\ LimitIdle /\ MemIdle /\ PackIdle /\ RegIdle
  /\ SigIdle /\ RefIdle /\ CallIdle /\ ArrIdle /\ DefIdle
CallRestIdle ==
  LinkIdle /\ LimitIdle /\ MemIdle /\ PackIdle /\ RegIdle
  /\ SigIdle /\ RefIdle /\ EpochIdle /\ ArrIdle /\ DefIdle
ArrRestIdle ==
  LinkIdle /\ LimitIdle /\ MemIdle /\ PackIdle /\ RegIdle
  /\ SigIdle /\ RefIdle /\ EpochIdle /\ CallIdle /\ DefIdle
DefRestIdle ==
  LinkIdle /\ LimitIdle /\ MemIdle /\ PackIdle /\ RegIdle
  /\ SigIdle /\ RefIdle /\ EpochIdle /\ CallIdle /\ ArrIdle

AuxIdle == LinkIdle /\ LimitIdle /\ MemIdle /\ ExtIdle

\* InnerLock::default and StoreData::default; WasmInstance #[class(init)].
CoreIdle ==
  /\ cell = "incomplete"
  /\ data = NoData
  /\ memory = NoMemory
  /\ locked = FALSE
  /\ mutex_raw = Null
  /\ error_signal = NoSignal
  /\ pc = [t \in Threads |-> "idle"]
  /\ stack = [t \in Threads |-> <<>>]
  /\ cur = [t \in Threads |-> NoCall]
  /\ ret = NoRet
  /\ held = [t \in Threads |-> FALSE]
  /\ everFailed = FALSE

Init == CoreIdle /\ AuxIdle

\* Where a thread continues when a call it made returns: top level, or the
\* closure of the release_store it made the call from.
After(s) == IF s = <<>> THEN "idle" ELSE "released"

\* A thread may start a call at top level or from inside a release_store closure.
Depth(s) == Len(SelectSeq(s, LAMBDA f: f.kind = "acq"))
CanCall(t) ==
  \/ pc[t] = "idle"
  \/ pc[t] = "released" /\ Depth(stack[t]) < MaxDepth

(***************************************************************************)
(* Initialization: WasmInstance::initialize and initialize_.               *)
(***************************************************************************)
\* variant_to_option::<Dictionary>(host) is Ok for nil and for a Dictionary.
\* (Faulty variant: a Dictionary is refused.)
HostOkNilOnly(h) == h = "nil"
HostOk(h) == h \in {"nil", "dict"}

\* OnceCell::get_or_try_init blocks while another initializer is running.
\* (Faulty variant: a second initializer does not wait.)
CellBlocksNoWait(c) == FALSE
CellBlocks(c) == c = "running"

\* OnceCell::get_or_try_init runs the closure only on an empty cell.
\* (Faulty variant: the closure runs on a complete cell too.)
CellRunsClosureAlways(c) == TRUE
CellRunsClosure(c) == c # "complete"

\* State of the cell after the closure returned Err: empty again.
\* (Faulty variant: the cell stays marked as running.)
CellAfterFailureStuck == "running"
CellAfterFailure == "incomplete"

\* initialize: Some(self.to_gd()) when initialize_ returned true, else None.
InitializeResult(r) == IF r THEN "self" ELSE "none"

\* initialize(module, host, config): the host check, before initialize_.
InitializeCall(t, m, h) ==
  /\ CanCall(t)
  /\ IF HostOk(h)
       THEN /\ pc' = [pc EXCEPT ![t] = "init_enter"]
            /\ cur' = [cur EXCEPT ![t] = [op |-> "initialize", arg |-> m,
                                          pre |-> data # NoData]]
            /\ ret' = NoRet
       ELSE /\ ret' = [NoRet EXCEPT !.t = t, !.op = "initialize", !.h = h, !.ok = FALSE,
                                 !.err = "Host is not a dictionary!",
                                 !.val = InitializeResult(FALSE),
                                 !.pre = data # NoData]
            /\ UNCHANGED <<pc, cur>>
  /\ UNCHANGED <<auxVars, instanceVars, storeVars, stack, held, everFailed>>

\* self.data.get_or_try_init(closure): enter the closure, or return the
\* published data without running it.
GetOrTryInit(t) ==
  /\ pc[t] = "init_enter"
  /\ ~CellBlocks(cell)
  /\ IF CellRunsClosure(cell)
       THEN /\ cell' = "running"
            /\ pc' = [pc EXCEPT ![t] = "init_inst"]
            /\ ret' = NoRet
            /\ UNCHANGED cur
       ELSE /\ ret' = [NoRet EXCEPT !.t = t, !.op = "initialize",
                                 !.ok = TRUE, !.val = InitializeResult(TRUE),
                                 !.pre = cur[t].pre, !.seen = data]
            /\ pc' = [pc EXCEPT ![t] = After(stack[t])]
            /\ cur' = [cur EXCEPT ![t] = NoCall]
            /\ UNCHANGED cell
  /\ UNCHANGED <<auxVars, data, memory, storeVars, stack, held, everFailed>>

\* The closure: InstanceData::instantiate(Store::new(..), config, module, host)?
InitInstantiate(t) ==
  /\ pc[t] = "init_inst"
  /\ IF InstantiateResult(cur[t].arg) = "ok"
       THEN /\ pc' = [pc EXCEPT ![t] = "init_mem"]
            /\ ret' = NoRet
            /\ UNCHANGED <<cell, cur, everFailed>>
       ELSE /\ cell' = CellAfterFailure
            /\ ret' = [NoRet EXCEPT !.t = t, !.op = "initialize",
                                 !.ok = FALSE, !.err = InstantiateResult(cur[t].arg),
                                 !.val = InitializeResult(FALSE),
                                 !.pre = cur[t].pre, !.ran = TRUE]
            /\ pc' = [pc EXCEPT ![t] = After(stack[t])]
            /\ cur' = [cur EXCEPT ![t] = NoCall]
            /\ everFailed' = TRUE
  /\ UNCHANGED <<auxVars, data, memory, storeVars, stack, held>>

\* The closure: *transmute(&self.memory) = inst.get_memory(store, MEMORY_EXPORT)
InitBindMemory(t) ==
  /\ pc[t] = "init_mem"
  /\ memory' = GetMemoryExport(cur[t].arg, MEMORY_EXPORT)
  /\ pc' = [pc EXCEPT ![t] = "init_pub"]
  /\ ret' = NoRet
  /\ UNCHANGED <<auxVars, cell, data, storeVars, stack, cur, held, everFailed>>

\* The closure returns Ok(ret): the cell publishes the InstanceData, whose
\* Store is new (StoreData::default, Mutex::new).
InitPublish(t) ==
  /\ pc[t] = "init_pub"
  /\ data' = cur[t].arg
  /\ cell' = "complete"
  /\ locked' = FALSE
  /\ mutex_raw' = Null
  /\ error_signal' = NoSignal
  /\ ret' = [NoRet EXCEPT !.t = t, !.op = "initialize", !.ok = TRUE,
                       !.val = InitializeResult(TRUE), !.pre = cur[t].pre,
                       !.ran = TRUE, !.seen = data']
  /\ pc' = [pc EXCEPT ![t] = After(stack[t])]
  /\ cur' = [cur EXCEPT ![t] = NoCall]
  /\ UNCHANGED <<auxVars, memory, stack, held, everFailed>>

(***************************************************************************)
(* The Store lock: InstanceData::acquire_store and InnerLock::release_store *)
(***************************************************************************)
AcqFrame(v, op, arg) == [kind |-> "acq", v |-> v, armed |-> FALSE, op |-> op, arg |-> arg]
RelFrame(armed) == [kind |-> "rel", v |-> Null, armed |-> armed, op |-> "none", arg |-> "-"]

Top(s) == s[Len(s)]
Pop(s) == SubSeq(s, 1, Len(s) - 1)

\* WasmInstance::get_data: Ok exactly when the cell holds data.
\* (Faulty variant: the check is skipped.)
GetDataAlwaysOk(d) == TRUE
GetData(d) == d # NoData

\* acquire_store: ptr::swap(p, &mut v) stores the mutex address in mutex_raw.
SwappedInPtr == Raw

\* acquire_store: the scope guard writes the saved pointer back (*p = v).
\* (Faulty variant: the guard writes null instead.)
RestoredPtrNull(f) == Null
RestoredPtr(f) == f.v

\* release_store: the mutex is unlocked, and the re-locking guard armed, only
\* when mutex_raw is not null.
ReleaseArmed(p) == p # Null

\* release_store: the guard re-locks the mutex when the closure is left.
\* (Faulty variant: the closure is left without re-locking.)
GuardRelocksNever(f) == FALSE
GuardRelocks(f) == f.armed

\* The default value an operation returns when unwrap_data yields None.
DefaultVal == "default"

\* unwrap_data(..): get_data fails on an empty cell and the operation returns
\* its default; get_module reads the data without the Store; every other
\* operation goes on to acquire_store.
CallOp(t, op, arg) ==
  /\ CanCall(t)
  /\ IF ~GetData(data)
       THEN /\ ret' = [NoRet EXCEPT !.t = t, !.op = op, !.ok = FALSE,
                                            !.err = "Uninitialized instance",
                                            !.val = DefaultVal]
            /\ UNCHANGED <<pc, cur>>
       ELSE IF op \in UnlockedOps
         THEN /\ ret' = [NoRet EXCEPT !.t = t, !.op = op, !.val = data,
                                              !.pre = TRUE]
              /\ UNCHANGED <<pc, cur>>
         ELSE /\ pc' = [pc EXCEPT ![t] = "lock"]
              /\ cur' = [cur EXCEPT ![t] = [op |-> OpClass(op), arg |-> arg,
                                            pre |-> TRUE]]
              /\ ret' = NoRet
  /\ UNCHANGED <<auxVars, instanceVars, storeVars, stack, held, everFailed>>

\* acquire_store: self.store.lock(), then the swap of mutex_raw, whose old
\* value the scope guard keeps.
Lock(t) ==
  /\ pc[t] = "lock"
  /\ ~locked
  /\ locked' = TRUE
  /\ held' = [held EXCEPT ![t] = TRUE]
  /\ stack' = [stack EXCEPT ![t] = Append(@, AcqFrame(mutex_raw, cur[t].op, cur[t].arg))]
  /\ mutex_raw' = SwappedInPtr
  /\ pc' = [pc EXCEPT ![t] = "body"]
  /\ cur' = [cur EXCEPT ![t] = NoCall]
  /\ ret' = NoRet
  /\ UNCHANGED <<auxVars, instanceVars, error_signal, everFailed>>

\* A host function called by the running guest export enters
\* release_store(f): unlock when mutex_raw is not null, then run f.
HostRelease(t) ==
  /\ pc[t] = "body"
  /\ Top(stack[t]).op = "guest"
  /\ Depth(stack[t]) < MaxDepth
  /\ LET armed == ReleaseArmed(mutex_raw) IN
       /\ stack' = [stack EXCEPT ![t] = Append(@, RelFrame(armed))]
       /\ locked' = IF armed THEN FALSE ELSE locked
       /\ held' = [held EXCEPT ![t] = IF armed THEN FALSE ELSE @]
  /\ pc' = [pc EXCEPT ![t] = "released"]
  /\ ret' = NoRet
  /\ UNCHANGED <<auxVars, instanceVars, mutex_raw, error_signal, cur, everFailed>>

\* release_store: f returned (Ok or Err alike); the guard, when armed, locks
\* the mutex again before the host function goes on.
ExitRelease(t) ==
  /\ pc[t] = "released"
  /\ LET f == Top(stack[t]) IN
       IF GuardRelocks(f)
         THEN /\ ~locked
              /\ locked' = TRUE
              /\ held' = [held EXCEPT ![t] = TRUE]
         ELSE UNCHANGED <<locked, held>>
  /\ stack' = [stack EXCEPT ![t] = Pop(@)]
  /\ pc' = [pc EXCEPT ![t] = "body"]
  /\ ret' = NoRet
  /\ UNCHANGED <<auxVars, instanceVars, mutex_raw, error_signal, cur, everFailed>>

\* The closures of the operations: what each does to the instance and the
\* Store, given that it succeeds.
BodyFails(op, ok) ==
  \/ ~ok
  \/ op = "memory_op" /\ memory = NoMemory

BodyErr(op, ok) ==
  IF op = "memory_op" /\ memory = NoMemory THEN "No memory exported"
  ELSE IF ~ok THEN "Error" ELSE ""

BodyVal(op, arg, ok) ==
  IF BodyFails(op, ok) THEN DefaultVal
  ELSE CASE op \in {"signal_error", "signal_error_cancel"} -> error_signal
         [] op = "memory_set_name" -> GetMemoryExport(data, arg)
         [] op = "has_memory" -> memory
         [] op = "memory_op" -> memory
         [] OTHER -> "value"

\* Variant: a name the instance does not export leaves the binding as it was.
BodyMemoryKeeps(op, arg) ==
  IF op = "memory_set_name" /\ GetMemoryExport(data, arg) # NoMemory
    THEN GetMemoryExport(data, arg) ELSE memory

BodyMemory(op, arg) ==
  IF op = "memory_set_name" THEN GetMemoryExport(data, arg) ELSE memory

\* Variant: the slot keeps the first message (get_or_insert, not replace).
BodySignalFirstWins(op, arg) ==
  CASE op = "signal_error" -> IF error_signal = NoSignal THEN arg ELSE error_signal
    [] op = "signal_error_cancel" -> NoSignal
    [] OTHER -> error_signal

BodySignal(op, arg) ==
  CASE op = "signal_error" -> arg
    [] op = "signal_error_cancel" -> NoSignal
    [] OTHER -> error_signal

\* acquire_store: the closure returns (Ok or Err); then _scope restores
\* mutex_raw and guard_ unlocks the mutex.
BodyReturn(t, ok) ==
  /\ pc[t] = "body"
  /\ LET f == Top(stack[t])
         failed == BodyFails(f.op, ok) IN
       /\ f.op \in {"signal_error", "signal_error_cancel", "memory_set_name",
                    "has_memory"} => ok
       /\ memory' = BodyMemory(f.op, f.arg)
       /\ error_signal' = BodySignal(f.op, f.arg)
       /\ mutex_raw' = RestoredPtr(f)
       /\ ret' = [NoRet EXCEPT !.t = t, !.op = f.op, !.ok = ~failed,
                                       !.err = BodyErr(f.op, ok),
                                       !.val = BodyVal(f.op, f.arg, ok),
                                       !.pre = TRUE]
  /\ locked' = FALSE
  /\ held' = [held EXCEPT ![t] = FALSE]
  /\ stack' = [stack EXCEPT ![t] = Pop(@)]
  /\ pc' = [pc EXCEPT ![t] = After(stack'[t])]
  /\ UNCHANGED <<auxVars, cell, data, cur, everFailed>>

(***************************************************************************)
(* Spec: the threads call the operations of an initialized instance.       *)
(***************************************************************************)
\* The state after initialize(core_mem, nil, nil) returned the instance.
InitDone ==
  /\ cell = "complete"
  /\ data = "core_mem"
  /\ memory = MEMORY_EXPORT
  /\ locked = FALSE
  /\ mutex_raw = Null
  /\ error_signal = NoSignal
  /\ pc = [t \in Threads |-> "idle"]
  /\ stack = [t \in Threads |-> <<>>]
  /\ cur = [t \in Threads |-> NoCall]
  /\ ret = NoRet
  /\ held = [t \in Threads |-> FALSE]
  /\ everFailed = FALSE
  /\ AuxIdle

\* The operations called here: all but memory_set_name, the one operation
\* whose closure writes a field of the WasmInstance itself.
StoreOps == Ops \ {"memory_set_name"}

Next ==
  \/ \E t \in Threads, op \in StoreOps : \E arg \in OpArgs(op) : CallOp(t, op, arg)
  \/ \E t \in Threads : Lock(t)
  \/ \E t \in Threads : HostRelease(t)
  \/ \E t \in Threads : ExitRelease(t)
  \/ \E t \in Threads, ok \in BOOLEAN : BodyReturn(t, ok)

Spec == InitDone /\ [][Next]_vars

(***************************************************************************)
(* SpecInit: the threads initialize the instance and call its operations.  *)
(***************************************************************************)
NextInit ==
  \/ \E t \in Threads, m \in Modules, h \in HostKinds : InitializeCall(t, m, h)
  \/ \E t \in Threads : GetOrTryInit(t)
  \/ \E t \in Threads : InitInstantiate(t)
  \/ \E t \in Threads : InitBindMemory(t)
  \/ \E t \in Threads : InitPublish(t)
  \/ \E t \in Threads, op \in Ops : \E arg \in OpArgs(op) : CallOp(t, op, arg)
  \/ \E t \in Threads : Lock(t)
  \/ \E t \in Threads, ok \in BOOLEAN : BodyReturn(t, ok)

SpecInit == Init /\ [][NextInit]_vars

(***************************************************************************)
(* FairSpec: Spec with the scheduling the code relies on: a thread waiting *)
(* for the mutex gets it when it is free again and again (parking_lot's     *)
(* eventual fairness), and every activation terminates: the closure of a    *)
(* release_store returns and the body of an acquire_store returns, at each  *)
(* nesting level (a guest export or a callback that runs forever is cut off *)
(* by the epoch deadline).                                                  *)
(***************************************************************************)
Levels == 1..(2 * MaxDepth)

Fairness ==
  \A t \in Threads :
    /\ SF_vars(Lock(t))
    /\ \A k \in Levels :
         SF_vars(Len(stack[t]) = k /\ (ExitRelease(t) \/ BodyReturn(t, TRUE)))

FairSpec == Spec /\ Fairness

(***************************************************************************)
(* Properties.                                                             *)
(***************************************************************************)
\* The thread is between the lock() of an acquire_store and its final unlock.
InCall(t) == stack[t] # <<>>
\* The thread is inside the closure of an acquire_store and not inside a
\* release_store made from it.
InBody(t) == pc[t] = "body"
\* The thread is inside the closure of one of its release_store calls.
InWindow(t) == pc[t] = "released"
\* The thread made a call from inside a release_store closure.
NestedPending(t) == pc[t] = "lock" /\ stack[t] # <<>>
InClosure(t) == pc[t] \in {"init_inst", "init_mem", "init_pub"}
HostError == "Host is not a dictionary!"
Uninitialized == "Uninitialized instance"

\* C1: at most one thread holds the Store mutex, a thread holds it only
\* while the mutex is locked, and the body of every operation that touches
\* guest state runs only while its thread holds the mutex.
C1_MutualExclusion ==
  /\ \A t1, t2 \in Threads : held[t1] /\ held[t2] => t1 = t2
  /\ \A t \in Threads : held[t] => locked
  /\ \A t \in Threads : InBody(t) => held[t]

\* One thread runs a body while another waits for the mutex and a third
\* party's release window is not needed: contention on the Store.
C1_Witness ==
  \E t1, t2 \in Threads :
    /\ t1 # t2
    /\ InBody(t1) /\ Len(stack[t1]) = 3
    /\ pc[t2] = "lock"

\* C2: mutex_raw is null whenever no acquire_store is in progress, and is the
\* address of the Store mutex whenever a thread is inside acquire_store and
\* has not released.
C2_PointerInvariant ==
  /\ (\A t \in Threads : ~InCall(t)) => mutex_raw = Null
  /\ (\E t \in Threads : InBody(t)) => mutex_raw = Raw

\* C3: a call made from inside a release_store closure into the same
\* instance completes, then the outer call completes, and a thread that has
\* returned from its outer call does not hold the Store mutex.
C3_ReentrantCallCompletes ==
  /\ \A t \in Threads : NestedPending(t) ~> ~InCall(t)
  /\ [](\A t \in Threads : ~InCall(t) /\ pc[t] = "idle" => ~held[t])

\* C4: between the lock acquisition of a call and its final unlock,
\* release_store windows included, no other thread's call is on the Store.
C4_CallsTotallyOrdered ==
  \A t1, t2 \in Threads : InCall(t1) /\ InCall(t2) => t1 = t2

\* C5: on every exit of an acquire_store closure (Ok or Err) mutex_raw is set
\* back to the value it had before that acquisition and the mutex is
\* unlocked; on every exit of a release_store closure the thread holds the
\* mutex again; a thread that is in no call holds nothing, and with no call
\* in progress the mutex is unlocked.
C5_RestoredOnEveryExit ==
  /\ [](\A t \in Threads : ~InCall(t) => ~held[t])
  /\ []((\A t \in Threads : ~InCall(t)) => ~locked)
  /\ [][\A t \in Threads :
          /\ (InBody(t) /\ Len(stack'[t]) < Len(stack[t]))
               => (mutex_raw' = Top(stack[t]).v /\ ~held'[t] /\ ~locked')
          /\ (InWindow(t) /\ Len(stack'[t]) < Len(stack[t]))
               => (held'[t] /\ locked')]_vars

\* A nested call failed: its acquire_store returned Err into the release
\* window it was made from, with mutex_raw restored and the mutex unlocked.
C5_Witness ==
  /\ ret.t # 0 /\ ~ret.ok /\ ret.op = "guest"
  /\ InWindow(ret.t)
  /\ mutex_raw = Raw /\ ~locked

\* C6 as stated: initialize on an initialized instance returns success.
C6_ReinitAlwaysSucceeds ==
  (ret.op = "initialize" /\ ret.pre) => ret.ok

\* C6 amended: initialize on an initialized instance, with a host argument
\* that is nil or a Dictionary, returns the instance, runs no instantiation
\* and leaves the cell, the data, the Store and the bound memory as they were.
C6_ReinitIsNoOp ==
  /\ []((ret.op = "initialize" /\ ret.pre /\ ret.err # HostError)
          => (ret.ok /\ ret.val = "self" /\ ~ret.ran /\ ret.seen = data))
  /\ [][\A t \in Threads :
          (cur[t].op = "initialize" /\ cur[t].pre /\ pc'[t] # pc[t])
            => UNCHANGED <<instanceVars, storeVars>>]_vars

\* A second initialize returned the instance published by the first.
C6_Witness ==
  /\ ret.op = "initialize" /\ ret.pre /\ ret.ok /\ ~ret.ran
  /\ ret.seen = "core_aux"

\* C7 as stated: initialize on an initialized instance is rejected.
C7_ReinitRejected ==
  (ret.op = "initialize" /\ ret.pre) => ~ret.ok

\* C7 amended: the instance data is created at most once, and initialize on
\* an initialized instance is rejected only when its host argument is not a
\* Dictionary (or nil); otherwise it succeeds without creating anything.
C7_CreatedOnce ==
  /\ [][data # NoData => data' = data]_vars
  /\ []((ret.op = "initialize" /\ ret.pre)
          => /\ ~ret.ok <=> ret.err = HostError
             /\ ret.err = HostError => ret.h = "other")

\* An initialize on an initialized instance was rejected for its host argument.
C7_Witness ==
  ret.op = "initialize" /\ ret.pre /\ ~ret.ok /\ data # NoData

C9_OneWinner ==
  /\ \A t1, t2 \in Threads : InClosure(t1) /\ InClosure(t2) => t1 = t2
  /\ (\E t \in Threads : InClosure(t)) <=> cell = "running"
  /\ cell = "complete" <=> data # NoData
  /\ (ret.op = "initialize" /\ ret.ok) => (data # NoData /\ ret.seen = data)
  /\ \A t \in Threads : pc[t] \in {"lock", "body"} => cell = "complete"
  /\ (ret.t # 0 /\ ret.op # "initialize" /\ ret.err # Uninitialized) => cell = "complete"

\* One initializer is about to publish while another waits on the cell.
C9_Witness ==
  \E t1, t2 \in Threads :
    /\ pc[t1] = "init_pub" /\ pc[t2] = "init_enter"
    /\ cur[t1].arg # cur[t2].arg
    /\ InstantiateResult(cur[t2].arg) = "ok"

\* C10: an operation other than initialize called on an instance without data
\* returns its default with the uninitialized error, acquires no lock and
\* changes nothing; so while the instance has no data no thread is at the
\* Store and the mutex is untouched.
C10_UninitializedOps ==
  /\ [](data = NoData =>
          /\ \A t \in Threads : pc[t] \notin {"lock", "body", "released"}
          /\ \A t \in Threads : ~held[t] /\ stack[t] = <<>>
          /\ ~locked /\ mutex_raw = Null /\ error_signal = NoSignal)
  /\ [][(data = NoData /\ ret'.t # 0 /\ ret'.op # "initialize")
          => /\ ret'.err = Uninitialized /\ ~ret'.ok /\ ret'.val = DefaultVal
             /\ UNCHANGED <<instanceVars, storeVars, pc, stack, cur, held>>]_vars

\* memory_set_name was called while an initializer had bound the memory but
\* not yet published the data.
C10_Witness ==
  /\ ret.op = "memory_set_name" /\ ret.err = Uninitialized
  /\ memory # NoMemory /\ data = NoData

NO_MEMORY == "No memory exported"

\* The step in which an initialize that ran the closure returns success
\* leaves the memory bound to the export called "memory" when the instance
\* has one, and unbound when it has none.
BoundOnInitialize ==
  (ret'.op = "initialize" /\ ret'.ok /\ ret'.ran /\ ret' # ret)
    => memory' = (IF MEMORY_EXPORT \in MemoryExports(data') THEN MEMORY_EXPORT
                  ELSE NoMemory)

\* A memory operation that returns while no memory is bound fails with 'No
\* memory exported' and returns its default.
FailsWithoutMemory ==
  (ret'.op = "memory_op" /\ ret'.pre /\ ret' # ret /\ memory = NoMemory)
    => (~ret'.ok /\ ret'.err = NO_MEMORY /\ ret'.val = DefaultVal)

\* C31: after a successful initialize the instance has a bound memory
\* exactly when the root module's instance exports a memory called
\* "memory"; while it has none, every memory operation fails with 'No
\* memory exported' and returns its default value.
C31_DefaultMemoryBinding == [][BoundOnInitialize /\ FailsWithoutMemory]_vars

\* A memory operation failed on an instance whose module exports a memory
\* under another name only.
C31_Witness ==
  /\ data = "core_aux" /\ memory = NoMemory
  /\ ret.op = "memory_op" /\ ret.err = NO_MEMORY

\* The call whose closure returns in this step, on thread ret'.t.
Returning == Top(stack[ret'.t])
Returns(op) == ret'.op = op /\ ret'.pre /\ ret'.t # 0 /\ ret' # ret

\* memory_set_name(name) binds the export called name, or nothing when
\* there is none, and returns whether it bound one.
Rebinds ==
  Returns("memory_set_name") =>
    /\ ret'.ok
    /\ (ret'.val # NoMemory) <=> (Returning.arg \in MemoryExports(data))
    /\ memory' = (IF Returning.arg \in MemoryExports(data) THEN Returning.arg
                  ELSE NoMemory)
    /\ ret'.val = memory'

\* has_memory and the memory operations read the binding as it is and leave
\* it alone: the one made by initialize or by the last memory_set_name.
ReadsBinding ==
  /\ Returns("has_memory") => (ret'.val = memory /\ memory' = memory)
  /\ (Returns("memory_op") /\ ret'.ok) => (ret'.val = memory /\ memory' = memory)
  /\ memory' # memory => (Returns("memory_set_name") \/ data = NoData)

\* C35: on an initialized instance memory_set_name(name) returns true
\* exactly when the instance exports a memory called name; has_memory
\* afterwards equals what it returned, so naming a missing export leaves
\* the instance without a bound memory even if one was bound, and later
\* memory operations use the export bound last.
C35_MemorySetName == [][Rebinds /\ ReadsBinding]_vars

\* memory_set_name named a missing export on an instance that had bound
\* its default memory.
C35_Witness ==
  /\ data = "core_mem" /\ memory = NoMemory
  /\ ret.op = "memory_set_name" /\ ret.pre /\ ret.val = NoMemory

(***************************************************************************)
(* Import resolution: InstanceData::instantiate and instantiate_wasm.      *)
(***************************************************************************)
\* Largest number of nested instantiate_wasm activations followed; the
\* native stack of the real program ends the recursion much later.
MaxStack == 4

\* Reserved namespaces of the two bridges and of the WASI linker.
OBJREGISTRY_MODULE == "godot_object_v1"
EXTERNREF_MODULE == "godot_object_v2"
WASI_MODULE == "wasi_snapshot_preview1"

ModIds == {"A", "B", "C", "D", "P"}
Root == "A"

\* ModuleData of one module: its declared imports in order, its dependency
\* table (namespace -> providing module), its exports, and its kind.
Mod(imports, table, exports, kind) ==
  [imports |-> imports, table |-> table, exports |-> exports, kind |-> kind]
Leaf(exports) == Mod(<<>>, {}, exports, "core")
Absent == Leaf({})

\* The dependency graphs instantiate is called on.
Diamond ==
  [m \in ModIds |->
     CASE m = "A" -> Mod(<< <<"b", "f">>, <<"c", "g">> >>,
                         {<<"b", "B">>, <<"c", "C">>}, {}, "core")
       [] m = "B" -> Mod(<< <<"d", "h">> >>, {<<"d", "D">>}, {"f"}, "core")
       [] m = "C" -> Mod(<< <<"d", "h">>, <<"d", "k">> >>, {<<"d", "D">>}, {"g"}, "core")
       [] m = "D" -> Leaf({"h", "k"})
       [] OTHER -> Absent]
Cycle ==
  [m \in ModIds |->
     CASE m = "A" -> Mod(<< <<"b", "f">> >>, {<<"b", "B">>}, {"g"}, "core")
       [] m = "B" -> Mod(<< <<"a", "g">> >>, {<<"a", "A">>}, {"f"}, "core")
       [] OTHER -> Absent]
SelfCycle ==
  [m \in ModIds |->
     CASE m = "A" -> Mod(<< <<"a", "f">> >>, {<<"a", "A">>}, {"f"}, "core")
       [] OTHER -> Absent]
LateCycle ==
  [m \in ModIds |->
     CASE m = "A" -> Mod(<< <<"d", "h">>, <<"b", "f">> >>,
                         {<<"d", "D">>, <<"b", "B">>}, {"g"}, "core")
       [] m = "B" -> Mod(<< <<"d", "h">>, <<"c", "g">> >>,
                         {<<"d", "D">>, <<"c", "C">>}, {"f"}, "core")
       [] m = "C" -> Mod(<< <<"b", "f">> >>, {<<"b", "B">>}, {"g"}, "core")
       [] m = "D" -> Leaf({"h"})
       [] OTHER -> Absent]
Unknown ==
  [m \in ModIds |->
     CASE m = "A" -> Mod(<< <<"b", "f">>, <<"x", "y">> >>, {<<"b", "B">>}, {}, "core")
       [] m = "B" -> Mod(<< <<"d", "h">>, <<"d", "zz">> >>, {<<"d", "D">>}, {"f"}, "core")
       [] m = "D" -> Leaf({"h"})
       [] OTHER -> Absent]
Bridges ==
  [m \in ModIds |->
     CASE m = "A" -> Mod(<< <<OBJREGISTRY_MODULE, "register">>,
                            <<EXTERNREF_MODULE, "register">>,
                            <<WASI_MODULE, "fd_write">>,
                            <<OBJREGISTRY_MODULE, "custom">>,
                            <<"b", "f">> >>,
                         {<<OBJREGISTRY_MODULE, "P">>, <<EXTERNREF_MODULE, "P">>,
                          <<WASI_MODULE, "P">>, <<"b", "B">>}, {}, "core")
       [] m = "B" -> Leaf({"f"})
       [] m = "P" -> Leaf({"register", "fd_write", "custom"})
       [] OTHER -> Absent]
Component ==
  [m \in ModIds |->
     CASE m = "A" -> Mod(<< <<"b", "f">> >>, {<<"b", "B">>}, {}, "core")
       [] m = "B" -> Mod(<<>>, {}, {"f"}, "component")
       [] OTHER -> Absent]

Graphs == {Diamond, Cycle, SelfCycle, LateCycle, Unknown, Bridges, Component}

\* Entries a host function table may hold.
HostEntries == {<<OBJREGISTRY_MODULE, "register">>, <<WASI_MODULE, "fd_write">>,
                <<"b", "f">>, <<"x", "y">>}
ExternBindings == {"None", "Registry", "Native"}

\* Functions the bridges and the WASI linker define.
BridgeFuncs == {"register"}
WasiFuncs == {"fd_write"}

\* HostModuleCache::get_extern: the host table has the entry, by exact
\* namespace and name.
HostGetExtern(imp) == imp \in host

\* The match on (i.module(), config): the bridge that is configured, when the
\* namespace is its reserved one and it defines the function.
BridgeGetFunc(imp) ==
  \/ /\ imp[1] = OBJREGISTRY_MODULE
     /\ config.extern_bind = "Registry"
     /\ imp[2] \in BridgeFuncs
  \/ /\ imp[1] = EXTERNREF_MODULE
     /\ config.extern_bind = "Native"
     /\ imp[2] \in BridgeFuncs

\* wasi_linker.get_by_import: only with a WASI linker (config.with_wasi).
WasiGetByImport(imp) ==
  /\ config.with_wasi
  /\ imp[1] = WASI_MODULE
  /\ imp[2] \in WasiFuncs

\* module.imports.get(i.module()): the sibling declared for the namespace.
TableGet(m, ns) == {e[2] : e \in {x \in graph[m].table : x[1] = ns}}

\* The provider an import of module m is resolved by, in the order of the
\* loop body of instantiate_wasm.
\* (Faulty variant: the WASI linker is asked before the host table.)
ProviderWasiFirst(m, imp) ==
  IF WasiGetByImport(imp) THEN "wasi"
  ELSE IF HostGetExtern(imp) THEN "host"
  ELSE IF BridgeGetFunc(imp) THEN "bridge"
  ELSE IF TableGet(m, imp[1]) # {} THEN "sibling"
  ELSE "none"
Provider(m, imp) ==
  IF HostGetExtern(imp) THEN "host"
  ELSE IF BridgeGetFunc(imp) THEN "bridge"
  ELSE IF WasiGetByImport(imp) THEN "wasi"
  ELSE IF TableGet(m, imp[1]) # {} THEN "sibling"
  ELSE "none"

\* v.instance_id(): the key of the memo is the identity of the module.
\* (Faulty variant: the key is the identity of the importing module.)
InstanceIdPerImporter(v, by) == by
InstanceId(v, by) == v

\* insts.get(&v.instance_id())
InstsGet(key) == {e \in insts : e.key = key}

\* v.get_export(store, i.name())
\* (Faulty variant: any name is taken as exported.)
GetExportAny(v, name) == TRUE
GetExport(v, name) == name \in graph[v].exports

Frame(m) == [mod |-> m, idx |-> 1, imports |-> <<>>]
Binding(imp, by, inst) == [ns |-> imp[1], name |-> imp[2], by |-> by, inst |-> inst]

\* The innermost activation, the import it is at and the sibling declared
\* for that import's namespace.
TopFrame == frames[Len(frames)]
AtImport == TopFrame.idx <= Len(graph[TopFrame.mod].imports)
CurImport == graph[TopFrame.mod].imports[TopFrame.idx]
Sibling == CHOOSE v \in TableGet(TopFrame.mod, CurImport[1]) : TRUE

Running ==
  /\ result.state = "running"
  /\ frames # <<>>
  /\ graph[TopFrame.mod].kind = "core"

\* instantiate(..) returns Err: the error leaves every activation through `?`.
Fail(err, imp) ==
  /\ result' = [state |-> "err", err |-> err, mod |-> TopFrame.mod,
                  ns |-> imp[1], name |-> imp[2], inst |-> 0]
  /\ frames' = <<>>
  /\ insts' = {}

\* imports.push(v); continue
Push(b) ==
  frames' = [frames EXCEPT ![Len(frames)] =
               [@ EXCEPT !.idx = @ + 1, !.imports = Append(@, b)]]

\* One turn of the loop over the imports that binds the import: to the host
\* table, a bridge, the WASI linker, or an export of the sibling's instance
\* found in insts.
BindImport ==
  /\ Running /\ AtImport
  /\ LET p == Provider(TopFrame.mod, CurImport) IN
       \/ /\ p \in {"host", "bridge", "wasi"}
          /\ Push(Binding(CurImport, p, 0))
       \/ /\ p = "sibling"
          /\ \E e \in InstsGet(InstanceId(Sibling, TopFrame.mod)) :
               /\ GetExport(Sibling, CurImport[2])
               /\ Push(Binding(CurImport, p, e.id))
  /\ UNCHANGED <<graph, host, config, insts, made, result>>
  /\ UNCHANGED <<vars, limitVars, memVars, extVars>>

\* The sibling is not in insts: instantiate_wasm is called on it.
Recurse ==
  /\ Running /\ AtImport
  /\ Provider(TopFrame.mod, CurImport) = "sibling"
  /\ InstsGet(InstanceId(Sibling, TopFrame.mod)) = {}
  /\ IF Len(frames) < MaxStack
       THEN /\ frames' = Append(frames, Frame(Sibling))
            /\ UNCHANGED result
       ELSE /\ result' = [NoResult EXCEPT !.state = "overflow"]
            /\ UNCHANGED frames
  /\ UNCHANGED <<graph, host, config, insts, made>>
  /\ UNCHANGED <<vars, limitVars, memVars, extVars>>

\* bail_with_site!("Unknown import ..."): no provider has the import.
FailUnknown ==
  /\ Running /\ AtImport
  /\ LET p == Provider(TopFrame.mod, CurImport) IN
       \/ p = "none"
       \/ /\ p = "sibling"
          /\ InstsGet(InstanceId(Sibling, TopFrame.mod)) # {}
          /\ ~GetExport(Sibling, CurImport[2])
  /\ Fail("Unknown import", CurImport)
  /\ UNCHANGED <<graph, host, config, made>>
  /\ UNCHANGED <<vars, limitVars, memVars, extVars>>

\* bail_with_site!("Cannot instantiate component")
FailComponent ==
  /\ result.state = "running"
  /\ frames # <<>>
  /\ graph[TopFrame.mod].kind = "component"
  /\ Fail("Cannot instantiate component", <<"", "">>)
  /\ UNCHANGED <<graph, host, config, made>>
  /\ UNCHANGED <<vars, limitVars, memVars, extVars>>

\* InstanceWasm::new(store, module_, &imports) after the loop; a dependency's
\* instance is inserted in insts, the root's is the result of instantiate.
FinishModule(ok) ==
  /\ Running /\ ~AtImport
  /\ IF ~ok
       THEN /\ Fail("Instantiation failed", <<"", "">>)
            /\ UNCHANGED made
       ELSE LET id == Len(made) + 1 IN
            /\ made' = Append(made, [mod |-> TopFrame.mod, imports |-> TopFrame.imports])
            /\ frames' = SubSeq(frames, 1, Len(frames) - 1)
            /\ IF Len(frames) = 1
                 THEN /\ result' = [NoResult EXCEPT !.state = "ok", !.inst = id]
                      /\ UNCHANGED insts
                 ELSE /\ insts' = insts \cup
                           {[key |-> InstanceId(TopFrame.mod, frames[Len(frames) - 1].mod),
                             id |-> id]}
                      /\ UNCHANGED result
  /\ UNCHANGED <<graph, host, config>>
  /\ UNCHANGED <<vars, limitVars, memVars, extVars>>

\* InstanceData::instantiate(store, config, module, host) is called.
InitLink ==
  /\ CoreIdle /\ LimitIdle /\ MemIdle /\ ExtIdle
  /\ graph \in Graphs
  /\ host \in SUBSET HostEntries
  /\ config \in [extern_bind : ExternBindings, with_wasi : BOOLEAN]
  /\ frames = <<Frame(Root)>>
  /\ insts = {}
  /\ made = <<>>
  /\ result = [NoResult EXCEPT !.state = "running"]

NextLink ==
  \/ BindImport
  \/ Recurse
  \/ FailUnknown
  \/ FailComponent
  \/ \E ok \in BOOLEAN : FinishModule(ok)

SpecLink == InitLink /\ [][NextLink]_linkVars

(***************************************************************************)
(* Properties of the import resolution.                                    *)
(***************************************************************************)
\* Every binding made so far, with the module whose import it binds.
BindingsOf(seq) ==
  UNION {{[mod |-> seq[k].mod, b |-> seq[k].imports[j]] :
            j \in 1..Len(seq[k].imports)} : k \in 1..Len(seq)}
Bound == BindingsOf(made) \cup BindingsOf(frames)
ImportOf(x) == <<x.b.ns, x.b.name>>

\* C11: every import is bound to the first provider that has it, in the
\* order host table, configured bridge on its reserved namespace, WASI
\* linker, export of the sibling declared for the namespace; a provider is
\* used only when every provider before it lacks the import.
C11_ResolutionPriority ==
  \A x \in Bound :
    /\ x.b.by \in {"host", "bridge", "wasi", "sibling"}
    /\ x.b.by = "host" <=> <<x.b.ns, x.b.name>> \in host
    /\ x.b.by = "bridge" <=>
         /\ <<x.b.ns, x.b.name>> \notin host
         /\ \/ x.b.ns = OBJREGISTRY_MODULE /\ config.extern_bind = "Registry"
            \/ x.b.ns = EXTERNREF_MODULE /\ config.extern_bind = "Native"
         /\ x.b.name \in BridgeFuncs
    /\ x.b.by = "wasi" =>
         /\ <<x.b.ns, x.b.name>> \notin host
         /\ ~BridgeGetFunc(ImportOf(x))
         /\ config.with_wasi /\ x.b.ns = WASI_MODULE /\ x.b.name \in WasiFuncs
    /\ x.b.by = "sibling" =>
         /\ <<x.b.ns, x.b.name>> \notin host
         /\ ~BridgeGetFunc(ImportOf(x))
         /\ ~WasiGetByImport(ImportOf(x))
         /\ \E v \in ModIds :
              /\ <<x.b.ns, v>> \in graph[x.mod].table
              /\ x.b.name \in graph[v].exports
              /\ made[x.b.inst].mod = v

\* One instance whose imports were bound by all four kinds of provider, one
\* of them by the sibling because the configured bridge lacks the function.
C11_Witness ==
  /\ result.state = "ok"
  /\ {b.by : b \in {made[result.inst].imports[j] :
                      j \in 1..Len(made[result.inst].imports)}}
       = {"host", "bridge", "wasi", "sibling"}
  /\ config.extern_bind = "Registry"
  /\ \E x \in Bound : x.b.ns = OBJREGISTRY_MODULE /\ x.b.by = "sibling"

\* An import has no provider: not in the host table, not a function of the
\* configured bridge, not in the WASI linker, and no sibling declared for its
\* namespace exports it.
Unresolvable(m, imp) ==
  /\ imp \notin host
  /\ ~BridgeGetFunc(imp)
  /\ ~WasiGetByImport(imp)
  /\ \A v \in TableGet(m, imp[1]) : imp[2] \notin graph[v].exports

\* C12: instantiate returns an Instance only when every import of the root
\* and of every module instantiated for it was resolved by a provider;
\* the first import met that no provider has ends the whole call, from any
\* depth of the recursion, with "Unknown import" naming it, and no Instance.
C12_UnknownImportFails ==
  /\ [](result.state = "ok" =>
          /\ made[result.inst].mod = Root
          /\ frames = <<>>
          /\ \A k \in 1..Len(made) :
               /\ Len(made[k].imports) = Len(graph[made[k].mod].imports)
               /\ \A j \in 1..Len(made[k].imports) :
                    /\ <<made[k].imports[j].ns, made[k].imports[j].name>>
                         = graph[made[k].mod].imports[j]
                    /\ ~Unresolvable(made[k].mod, graph[made[k].mod].imports[j]))
  /\ []((result.state = "err" /\ result.err = "Unknown import") =>
          /\ <<result.ns, result.name>> \in
               {graph[result.mod].imports[j] : j \in 1..Len(graph[result.mod].imports)}
          /\ Unresolvable(result.mod, <<result.ns, result.name>>)
          /\ result.inst = 0 /\ frames = <<>> /\ insts = {})
  /\ [](result.state = "running" => \A x \in Bound : ~Unresolvable(x.mod, ImportOf(x)))
  /\ [][(result.state = "running" /\ AtImport
           /\ Unresolvable(TopFrame.mod, CurImport)
           /\ graph[TopFrame.mod].kind = "core")
          => (result'.state = "err" /\ result'.err = "Unknown import"
              /\ <<result'.ns, result'.name>> = CurImport
              /\ result'.mod = TopFrame.mod)]_linkVars

\* The call failed on an import of a dependency, two activations deep, after
\* other imports had been bound.
C12_Witness ==
  /\ result.state = "err" /\ result.err = "Unknown import"
  /\ result.mod = "B" /\ result.name = "zz"
  /\ Len(made) = 1

\* C13: within one instantiate call no module is instantiated twice, and
\* every import resolved against a module is bound to that module's one
\* instance.
C13_InstantiatedOnce ==
  /\ \A k1, k2 \in 1..Len(made) : made[k1].mod = made[k2].mod => k1 = k2
  /\ \A e1, e2 \in insts : e1.key = e2.key => e1 = e2
  /\ \A e \in insts : e.id \in 1..Len(made) /\ made[e.id].mod = e.key
  /\ \A x, y \in Bound :
       (x.b.by = "sibling" /\ y.b.by = "sibling"
          /\ made[x.b.inst].mod = made[y.b.inst].mod) => x.b.inst = y.b.inst

\* The diamond was instantiated: B and C are both bound to the one instance
\* of D, C by two imports.
C13_Witness ==
  /\ result.state = "ok"
  /\ \E x, y \in Bound :
       /\ x.mod = "B" /\ y.mod = "C"
       /\ x.b.by = "sibling" /\ y.b.by = "sibling"
       /\ x.b.inst = y.b.inst
       /\ made[x.b.inst].mod = "D"
  /\ Len(made) = 4

\* C14: a module's instantiation is never requested while that module's
\* instantiation is in progress without the call ending in an error: no
\* module is twice among the activations, and the recursion stays within the
\* number of modules.
C14_CycleFails ==
  /\ \A k1, k2 \in 1..Len(frames) : frames[k1].mod = frames[k2].mod => k1 = k2
  /\ result.state # "overflow"

(***************************************************************************)
(* The resource limiter: MemoryLimit and its ResourceLimiter impl.         *)
(* Sizes and allowances are small numbers; U64_MAX stands for u64::MAX.    *)
(***************************************************************************)
\* Largest size the memory or the table is asked to grow to.
MaxSize == 6
\* u64::MAX, the "no limit" sentinel, above every size and allowance used.
U64_MAX == 15

\* Config.max_memory / Config.max_entries: Option<u64>.
ConfigLimits == {None} \cup {Some(v) : v \in {0, 2, 5, U64_MAX}}
\* The maximum the guest declared for a memory or a table, if any.
HardMaxima == {None} \cup {Some(v) : v \in {3, MaxSize}}
Kinds == {"memory", "table"}

\* MemoryLimit::from_config: the default is kept unless the config has a value.
FromConfig(c) == IF c.some THEN c.v ELSE U64_MAX

\* max.map_or(false, |max| desired > max)
\* (Faulty variant: the guest's maximum is not looked at.)
HardMaxIgnored(desired, max) == FALSE
HardMaxExceeded(desired, max) == max.some /\ desired > max.v

\* self.max_memory == u64::MAX
\* (Faulty variant: the sentinel is treated as an allowance.)
IsUnlimitedNever(a) == FALSE
IsUnlimited(a) == a = U64_MAX

\* u64::checked_sub
\* (Faulty variant: an allowance used up exactly is refused.)
CheckedSubStrict(a, delta) == IF delta < a THEN Some(a - delta) ELSE None
CheckedSub(a, delta) == IF delta <= a THEN Some(a - delta) ELSE None

\* memory_growing / table_growing on the allowance a: the answer and the
\* allowance left.
Growing(a, current, desired, max) ==
  IF HardMaxExceeded(desired, max) THEN [grant |-> FALSE, left |-> a]
  ELSE IF IsUnlimited(a) THEN [grant |-> TRUE, left |-> a]
  ELSE LET delta == desired - current
           v == CheckedSub(a, delta) IN
       IF v.some THEN [grant |-> TRUE, left |-> v.v]
       ELSE [grant |-> FALSE, left |-> a]

\* What a request leaves behind: the engine grows the memory or the table
\* when the limiter granted the request.
Answer(kind, desired, max, r) ==
  /\ lret' = [kind |-> kind, current |-> sizes[kind], desired |-> desired,
              max |-> max, grant |-> r.grant]
  /\ sizes' = [sizes EXCEPT ![kind] = IF r.grant THEN desired ELSE @]
  /\ granted' = [granted EXCEPT ![kind] = IF r.grant THEN @ + (desired - sizes[kind]) ELSE @]
  /\ UNCHANGED seed

\* MemoryLimit::memory_growing(current, desired, max)
MemoryGrowing(desired, max) ==
  /\ LET r == Growing(max_memory, sizes["memory"], desired, max) IN
       /\ max_memory' = r.left
       /\ Answer("memory", desired, max, r)
  /\ UNCHANGED max_table_entries
  /\ UNCHANGED <<vars, linkVars, memVars, extVars>>

\* MemoryLimit::table_growing(current, desired, max)
TableGrowing(desired, max) ==
  /\ LET r == Growing(max_table_entries, sizes["table"], desired, max) IN
       /\ max_table_entries' = r.left
       /\ Answer("table", desired, max, r)
  /\ UNCHANGED max_memory
  /\ UNCHANGED <<vars, linkVars, memVars, extVars>>

\* MemoryLimit::from_config(config), with a guest whose memory and table are
\* empty.
InitLimit ==
  /\ CoreIdle /\ LinkIdle /\ MemIdle /\ ExtIdle
  /\ \E cm, ct \in ConfigLimits :
       /\ max_memory = FromConfig(cm)
       /\ max_table_entries = FromConfig(ct)
       /\ seed = [memory |-> FromConfig(cm), table |-> FromConfig(ct)]
  /\ sizes = [memory |-> 0, table |-> 0]
  /\ granted = [memory |-> 0, table |-> 0]
  /\ lret = [NoRequest EXCEPT !.kind = "start"]

NextLimit ==
  \/ \E d \in 0..MaxSize, max \in HardMaxima :
       d >= sizes["memory"] /\ MemoryGrowing(d, max)
  \/ \E d \in 0..MaxSize, max \in HardMaxima :
       d >= sizes["table"] /\ TableGrowing(d, max)

SpecLimit == InitLimit /\ [][NextLimit]_limitVars

(***************************************************************************)
(* Properties of the resource limiter.                                     *)
(***************************************************************************)
\* The remaining allowance of a kind.
Allowance(k) == IF k = "memory" THEN max_memory ELSE max_table_entries
\* The request a step answered asked for more than the guest's maximum.
OverHardMax(r) == r.max.some /\ r.desired > r.max.v
Delta(r) == r.desired - r.current

\* C15: with a finite allowance a and the hard maximum respected, a request
\* is granted exactly when delta = desired - current is at most a; a granted
\* request leaves a - delta and a denied one leaves a.
C15_LimiterArithmetic ==
  [][\A k \in Kinds :
       (lret'.kind = k /\ Allowance(k) # U64_MAX /\ ~OverHardMax(lret'))
         => /\ lret'.current = sizes[k]
            /\ lret'.grant <=> Delta(lret') <= Allowance(k)
            /\ lret'.grant => Allowance(k)' = Allowance(k) - Delta(lret')
            /\ ~lret'.grant => Allowance(k)' = Allowance(k)]_limitVars

\* Of an allowance of 5, 3 were granted earlier; a request for the 2 left
\* was granted and left 0.
C15_Witness ==
  /\ seed["memory"] = 5
  /\ lret.kind = "memory" /\ lret.grant /\ Delta(lret) = 2
  /\ max_memory = 0

\* C16: a request for more than the guest's hard maximum is denied before
\* the allowance is looked at, also with the unlimited sentinel, and deducts
\* nothing; otherwise the allowance decides; the answer is always a grant or
\* a denial.
C16_HardMaxFirst ==
  [][\A k \in Kinds :
       lret'.kind = k
         => /\ lret'.grant \in BOOLEAN
            /\ OverHardMax(lret')
                 => (~lret'.grant /\ Allowance(k)' = Allowance(k) /\ sizes' = sizes)
            /\ (~OverHardMax(lret') /\ Allowance(k) = U64_MAX) => lret'.grant
            /\ (~OverHardMax(lret') /\ Allowance(k) # U64_MAX)
                 => (lret'.grant <=> Delta(lret') <= Allowance(k))]_limitVars

\* A request over the hard maximum was denied although the allowance is
\* unlimited, after an earlier request had been granted.
C16_Witness ==
  /\ lret.kind = "memory" /\ OverHardMax(lret) /\ ~lret.grant
  /\ max_memory = U64_MAX
  /\ granted["memory"] > 0

\* C17: neither counter ever increases; for a finite seed the granted deltas
\* sum to what was deducted and never exceed the seed, and the counter never
\* becomes the sentinel; a counter seeded with the sentinel stays the sentinel
\* and denies only for the hard maximum; a request of one kind leaves the
\* counter of the other kind alone.
C17_CountersOnlyDecrease ==
  /\ [][max_memory' <= max_memory /\ max_table_entries' <= max_table_entries]_limitVars
  /\ [](\A k \in Kinds :
          /\ seed[k] # U64_MAX =>
               /\ granted[k] <= seed[k]
               /\ Allowance(k) = seed[k] - granted[k]
               /\ Allowance(k) # U64_MAX
          /\ seed[k] = U64_MAX => Allowance(k) = U64_MAX)
  /\ [][\A k \in Kinds :
          /\ (lret'.kind = k /\ Allowance(k) = U64_MAX /\ ~lret'.grant) => OverHardMax(lret')
          /\ lret'.kind = k => \A o \in Kinds \ {k} : Allowance(o)' = Allowance(o)]_limitVars

\* The memory allowance of 5 is used up while the unlimited table counter
\* has granted more than that and is untouched.
C17_Witness ==
  /\ seed["memory"] = 5 /\ max_memory = 0
  /\ seed["table"] = U64_MAX /\ max_table_entries = U64_MAX
  /\ granted["table"] = MaxSize

(***************************************************************************)
(* Linear memory: read_memory / write_memory and the accessors built on    *)
(* them.  The widths are scaled: a byte holds ByteMod values and the        *)
(* machine word (usize, i64) is WordBytes such bytes wide, so that every    *)
(* word value, and every overflow of a word, is within reach.               *)
(***************************************************************************)
\* mem.data_size(store): the size of the memory, in bytes.
MemSize == 9
\* Number of values of a byte (stands for 256).
ByteMod == 2
\* size_of::<usize>() and size_of::<i64>(), in bytes.
WordBytes == 8
WordMod == ByteMod ^ WordBytes
I64_MIN == 0 - (WordMod \div 2)
I64_MAX == (WordMod \div 2) - 1

\* `x as usize` for x: i64: the same bits, read as unsigned.
AsUsize(x) == x % WordMod
\* `x as i64` for an unsigned word: the same bits, read as signed.
AsI64(u) == IF u > I64_MAX THEN u - WordMod ELSE u

\* The result of a usize operation: a value, or a panic of the thread.
Val(v) == [panic |-> FALSE, v |-> v]
Panic == [panic |-> TRUE, v |-> 0]

\* What the build makes of a usize result that needs more than a word:
\* "attempt to add/multiply with overflow" with overflow checks, else the
\* low bits.
Wrap(x, checks) ==
  IF x < WordMod THEN Val(x)
  ELSE IF checks THEN Panic ELSE Val(x % WordMod)

\* a + b and a * b on usize.
AddUsize(a, b) == Wrap(a + b, overflow_checks)
MulUsize(a, b) == Wrap(a * b, overflow_checks)

\* <[u8]>::get(i..e): Some exactly when i <= e and e <= len.
SliceGet(len, i, e) == i <= e /\ e <= len

\* The bytes i..e of the memory (offsets from 0).
Slice(m, i, e) == SubSeq(m, i + 1, e)
\* The memory with the bytes from offset i on replaced by the bytes b.
Splice(m, i, b) ==
  [k \in 1..Len(m) |-> IF k > i /\ k <= i + Len(b) THEN b[k - i] ELSE m[k]]

\* u8 / u16 / u32 / i64 ::to_le_bytes of the low w bytes of v.
\* (Faulty variant: most significant byte first.)
ToBeBytes(v, w) ==
  [k \in 1..w |-> ((v % (ByteMod ^ w)) \div (ByteMod ^ (w - k))) % ByteMod]
ToLeBytes(v, w) ==
  [k \in 1..w |-> ((v % (ByteMod ^ w)) \div (ByteMod ^ (k - 1))) % ByteMod]

\* u8 / u16 / u32 ::from_le_bytes: the unsigned value of the bytes.
RECURSIVE FromLeBytes(_)
FromLeBytes(b) ==
  IF b = <<>> THEN 0
  ELSE b[1] + ByteMod * FromLeBytes(SubSeq(b, 2, Len(b)))

\* The i64 a getter of width w returns for bytes b: u8, u16 and u32 widen
\* (`.into()`), get_64 reads an i64.
Widen(b, w) == IF w = WordBytes THEN AsI64(FromLeBytes(b)) ELSE FromLeBytes(b)

\* Outcome of the range check of read_memory / write_memory / put_array /
\* get_array for the range starting at i with len bytes, len itself possibly
\* the outcome of a multiplication.
Range(i, len) ==
  IF len.panic THEN [st |-> "panic", lo |-> 0, hi |-> 0]
  ELSE LET e == AddUsize(i, len.v) IN
       IF e.panic THEN [st |-> "panic", lo |-> 0, hi |-> 0]
       ELSE IF SliceGet(Len(mem), i, e.v) THEN [st |-> "ok", lo |-> i, hi |-> e.v]
       ELSE [st |-> "err", lo |-> 0, hi |-> 0]

\* iN::from_le_bytes for the elements of an array: signed, except bytes.
Signed(b, w) ==
  LET u == FromLeBytes(b) IN
  IF w > 1 /\ u >= (ByteMod ^ w) \div 2 THEN u - ByteMod ^ w ELSE u

\* The elements of a slice cut into records of n bytes (par_chunks_exact).
Chunks(b, n) == [k \in 1..(Len(b) \div n) |-> Signed(SubSeq(b, (k - 1) * n + 1, k * n), n)]

\* The records of an array laid out one after the other.
RECURSIVE Records(_, _)
Records(arr, n) ==
  IF arr = <<>> THEN <<>>
  ELSE ToLeBytes(arr[1], n) \o Records(SubSeq(arr, 2, Len(arr)), n)

\* Offsets, lengths and values the accessors are called with (i64).
Offsets == {-1, 0, 6, MemSize}
Lengths == {-1, 0, 3, MemSize + 1}
Values == {-86, 101}
ByteArrays == {<<>>, <<1, 0, 1>>}
\* Widths of the scalar accessors, in bytes: get_8 .. get_64.
Widths == {1, 2, 4, 8}

\* Variant type IDs and the record width of each packed array: 29 byte,
\* 30 int32, 31 int64, 32 float32, 33 float64, 35 vector2, 36 vector3,
\* 37 color. 2 (int), 28 (Array) and 34 (PackedStringArray) are Variant types
\* without a record width; -1 and 38 are no Variant types.
TypeIds == {-1, 2, 28, 29, 30, 31, 32, 33, 34, 35, 36, 37, 38}
\* (Faulty variant: type 34 is transferred as 4-byte records.)
ElemSizeWithStrings(t) ==
  CASE t = 29 -> 1 [] t \in {30, 32, 34} -> 4 [] t \in {31, 33, 35} -> 8
    [] t = 36 -> 12 [] t = 37 -> 16 [] OTHER -> 0
ElemSize(t) ==
  CASE t = 29 -> 1 [] t \in {30, 32} -> 4 [] t \in {31, 33, 35} -> 8
    [] t = 36 -> 12 [] t = 37 -> 16 [] OTHER -> 0
\* Values handed to put_array, by Variant type ID; a record of a float or
\* vector array is written as the integer its bytes spell.
Arrays == {[t |-> 29, a |-> <<1, 1>>], [t |-> 30, a |-> <<5, -6>>],
           [t |-> 31, a |-> <<101>>], [t |-> 30, a |-> <<>>],
           [t |-> 35, a |-> <<77>>], [t |-> 37, a |-> <<>>],
           [t |-> 2, a |-> <<>>], [t |-> 28, a |-> <<1>>], [t |-> 34, a |-> <<1>>]}
\* Element counts asked of get_array; the last ones times a record width
\* need more than a word.
Counts == {-1, 0, 2, WordMod \div 4, WordMod \div 4 + 1}

Access(op, w, i, n, v, st) ==
  [op |-> op, w |-> w, i |-> i, n |-> n, v |-> v, st |-> st, num |-> 0, bytes |-> <<>>]

\* memory_read(i, n): read_memory(i as usize, n as usize, ..)
MemoryRead(i, n) ==
  /\ LET r == Range(AsUsize(i), Val(AsUsize(n))) IN
       mret' = [Access("memory_read", 0, i, n, 0, r.st) EXCEPT
                  !.bytes = IF r.st = "ok" THEN Slice(mem, r.lo, r.hi) ELSE <<>>]
  /\ UNCHANGED <<mem, overflow_checks>>
  /\ UNCHANGED <<vars, linkVars, limitVars, extVars>>

\* memory_write(i, a): write_memory(i as usize, a.len(), copy_from_slice)
MemoryWrite(i, a) ==
  /\ LET r == Range(AsUsize(i), Val(Len(a))) IN
       /\ mret' = [Access("memory_write", 0, i, Len(a), 0, r.st) EXCEPT !.bytes = a]
       /\ mem' = IF r.st = "ok" THEN Splice(mem, r.lo, a) ELSE mem
  /\ UNCHANGED overflow_checks
  /\ UNCHANGED <<vars, linkVars, limitVars, extVars>>

\* get_8 / get_16 / get_32 / get_64 (i): read_memory(i as usize, w, from_le_bytes)
Get(w, i) ==
  /\ LET r == Range(AsUsize(i), Val(w)) IN
       mret' = [Access("get", w, i, w, 0, r.st) EXCEPT
                  !.num = IF r.st = "ok" THEN Widen(Slice(mem, r.lo, r.hi), w) ELSE 0]
  /\ UNCHANGED <<mem, overflow_checks>>
  /\ UNCHANGED <<vars, linkVars, limitVars, extVars>>

\* put_8 / put_16 / put_32 / put_64 (i, v): write_memory(i as usize, w, to_le_bytes)
Put(w, i, v) ==
  /\ LET r == Range(AsUsize(i), Val(w)) IN
       /\ mret' = Access("put", w, i, w, v, r.st)
       /\ mem' = IF r.st = "ok" THEN Splice(mem, r.lo, ToLeBytes(v, w)) ELSE mem
  /\ UNCHANGED overflow_checks
  /\ UNCHANGED <<vars, linkVars, limitVars, extVars>>

\* put_array(i, v): e = i + s.len() * N; d.get_mut(i..e); the records;
\* values that are no packed array of a transferred type are refused.
PutArray(i, x) ==
  /\ LET w == ElemSize(x.t)
         r == Range(AsUsize(i), MulUsize(Len(x.a), w)) IN
       IF w = 0
         THEN /\ mret' = [Access("put_array", 0, i, Len(x.a), x.t, "type") EXCEPT
                           !.bytes = x.a]
              /\ mem' = mem
         ELSE /\ mret' = [Access("put_array", w, i, Len(x.a), x.t, r.st) EXCEPT
                           !.bytes = x.a]
              /\ mem' = IF r.st = "ok" THEN Splice(mem, r.lo, Records(x.a, w)) ELSE mem
  /\ UNCHANGED overflow_checks
  /\ UNCHANGED <<vars, linkVars, limitVars, extVars>>

\* get_array(i, n, t): e = i + n * N; s.get(i..e); the records; type IDs
\* without an array are refused before any range is computed.
GetArray(i, n, t) ==
  /\ LET w == ElemSize(t)
         r == Range(AsUsize(i), MulUsize(AsUsize(n), w)) IN
       IF w = 0
         THEN mret' = Access("get_array", 0, i, n, t, "type")
         ELSE mret' = [Access("get_array", w, i, n, t, r.st) EXCEPT
                         !.bytes = IF r.st = "ok"
                                     THEN Chunks(Slice(mem, r.lo, r.hi), w) ELSE <<>>]
  /\ UNCHANGED <<mem, overflow_checks>>
  /\ UNCHANGED <<vars, linkVars, limitVars, extVars>>

\* A bound memory of MemSize bytes, in a build with or without overflow checks.
InitMem ==
  /\ CoreIdle /\ LinkIdle /\ LimitIdle /\ ExtIdle
  /\ mem = [k \in 1..MemSize |-> IF k % 3 = 0 THEN 1 ELSE 0]
  /\ overflow_checks \in BOOLEAN
  /\ mret = NoAccess

NextMem ==
  \/ \E i \in Offsets, n \in Lengths : MemoryRead(i, n)
  \/ \E i \in Offsets, a \in ByteArrays : MemoryWrite(i, a)
  \/ \E w \in Widths, i \in Offsets : Get(w, i)
  \/ \E w \in Widths, i \in Offsets, v \in Values : Put(w, i, v)

SpecMem == InitMem /\ [][NextMem]_memVars

\* The array accessors on their own.
NextArray ==
  \/ \E i \in Offsets, x \in Arrays : PutArray(i, x)
  \/ \E i \in Offsets, n \in Counts, t \in TypeIds : GetArray(i, n, t)

SpecArray == InitMem /\ [][NextArray]_memVars

(***************************************************************************)
(* Linear memory: properties                                               *)
(***************************************************************************)

\* [i, i + n) lies inside the memory, on the integers.
Inside(i, n) == i >= 0 /\ n >= 0 /\ i + n <= Len(mem)

ByteOps == {"memory_read", "memory_write", "get", "put"}

\* C18: memory_read, memory_write and the scalar accessors succeed exactly
\* when [i, i + n) lies inside the memory and fail with the bounds error
\* otherwise, for every i and n, negative ones and overflowing sums included;
\* they never panic.
C18_BoundsChecked ==
  mret.op \in ByteOps =>
    mret.st = IF Inside(mret.i, mret.n) THEN "ok" ELSE "err"

\* Byte k of the two's-complement integer v (bits 8k .. 8k+7 at full scale).
ByteOf(v, k) == (v \div (ByteMod ^ k)) % ByteMod

\* A successful put_w leaves byte k of v at offset i + k.
PutLaysOutBytes ==
  (mret.op = "put" /\ mret.st = "ok") =>
    \A k \in 0..(mret.w - 1) : mem[mret.i + k + 1] = ByteOf(mret.v, k)

\* A get_w at the offset of the put_w just made returns what was put.
GetAfterPut ==
  (/\ mret.op = "put" /\ mret.st = "ok"
   /\ mret'.op = "get" /\ mret'.w = mret.w /\ mret'.i = mret.i)
    => /\ mret'.st = "ok"
       /\ mret'.num = IF mret.w = WordBytes THEN mret.v
                      ELSE mret.v % (ByteMod ^ mret.w)

\* C19: after put_w(i, v) succeeds the byte at i + k is byte k of v, least
\* significant first, and get_w(i) then returns v mod 2^w as a non-negative
\* number for the widths below the word and v itself for the 64-bit width.
C19_LittleEndianRoundTrip == [](PutLaysOutBytes) /\ [][GetAfterPut]_memVars

\* get_64 returns a negative value that put_64 stored.
C19_Witness ==
  /\ mret.op = "get" /\ mret.st = "ok" /\ mret.w = WordBytes
  /\ mret.num = -86 /\ mret.num < 0

WriteOps == {"memory_write", "put"}

\* The write returned false: the bounds error, turned into None by unwrap_data.
ReturnsFalse == mret.st = "err"

\* A write changes no byte outside [i, i + n), and none at all unless it
\* succeeds.
WritesInsideRange ==
  mret'.op \in WriteOps =>
    /\ mret'.st = "ok" =>
         \A k \in 1..Len(mem) :
           (k <= mret'.i \/ k > mret'.i + mret'.n) => mem'[k] = mem[k]
    /\ mret'.st # "ok" => mem' = mem
    /\ Len(mem') = Len(mem)

\* C34: a successful put_8/16/32/64 or memory_write at offset i with width
\* n changes no byte outside [i, i + n); one that fails returns false and
\* leaves every byte of the memory as it was.
C34_WritesOnlyRange ==
  /\ []((mret.op \in WriteOps /\ mret.st # "ok") => ReturnsFalse)
  /\ [][WritesInsideRange]_memVars

ArrayOps == {"put_array", "get_array"}

\* Element k of a transferred array occupies the w bytes at i + k * w, least
\* significant byte first (elements are compared modulo their width).
RecordsLaidOut(i, w, elems) ==
  \A k \in 0..(Len(elems) - 1) : \A j \in 0..(w - 1) :
    mem[i + k * w + j + 1] = ByteOf(elems[k + 1], j)

\* C20: put_array and get_array with a supported element type succeed
\* exactly when [i, i + count * N) lies inside the memory and fail with the
\* range error otherwise, for every i and count, overflowing products and
\* sums included; on success the records are laid out in order and
\* get_array returns exactly n elements.
C20_ArrayBoundsChecked ==
  (mret.op \in ArrayOps /\ mret.w > 0) =>
    /\ mret.st = IF Inside(mret.i, mret.n * mret.w) THEN "ok" ELSE "err"
    /\ mret.st = "ok" => /\ RecordsLaidOut(mret.i, mret.w, mret.bytes)
                         /\ Len(mret.bytes) = mret.n

\* The Variant type IDs of the packed arrays that are transferred.
Supported == {29, 30, 31, 32, 33, 35, 36, 37}

ArrayCallTyped ==
  mret'.op \in ArrayOps =>
    /\ (mret'.st = "type") <=> (mret'.v \notin Supported)
    /\ mret'.st \in {"type", "err"} =>
         /\ mem' = mem
         /\ mret'.op = "get_array" => mret'.bytes = <<>>

\* C21: get_array and put_array go through only for the eight packed array
\* types 29..33 and 35..37 and fail with the type error for every other type
\* ID or value, 34 and the IDs below 29 and above 37 included; a failing call
\* returns nothing and leaves the memory as it was.
C21_SupportedTypes == [][ArrayCallTyped]_memVars

\* get_array was asked for the type between the supported ones and refused.
C21_Witness == mret.op = "get_array" /\ mret.v = 34 /\ mret.st = "type"

(***************************************************************************)
(* Array adapters: the operations impl_packed_array! generates for each    *)
(* packed array interface of the component API.  An element is written as  *)
(* the sequence of its parts: a byte <<b>>, a text its characters.          *)
(***************************************************************************)
MaxTable == 2

\* An interface of the plain arm (byte_array) and one of the projected arm
\* (string_array) of the macro.
ElemTypes == {"byte_array", "string_array"}
Methods == {"from", "to", "slice", "len", "is-empty", "get", "contains", "count",
            "find", "rfind", "subarray"}

\* GString::from(&str): the text Godot keeps ends before the first NUL.
RECURSIVE UntilNul(_)
UntilNul(s) ==
  IF s = <<>> \/ s[1] = 0 THEN <<>> ELSE <<s[1]>> \o UntilNul(Tail(s))

\* $e1: a wire element as the packed array stores it.
FromWire(t, v) == IF t = "string_array" THEN UntilNul(v) ELSE v
\* $e2: a stored element on the wire.
ToWire(t, v) == v
Stored(t, seq) == [k \in 1..Len(seq) |-> FromWire(t, seq[k])]
Wired(t, a) == [k \in 1..Len(a) |-> ToWire(t, a[k])]

\* Sequences handed to from, elements searched for, ranges and indices.
Seqs(t) ==
  CASE t = "byte_array" -> {<<>>, << <<1>>, <<2>>, <<3>>, <<2>>, <<5>> >>}
    [] t = "string_array" -> {<< <<1>>, <<1, 0, 2>>, <<>> >>}
Elems(t) ==
  CASE t = "byte_array" -> {<<2>>, <<9>>}
    [] t = "string_array" -> {<<1, 0, 3>>}
Ranges == {<<2, 5>>, <<3, 7>>, <<3, 2>>, <<0, 0>>}
Indices == {0, 4, 5}
Handles == 1..(MaxTable + 1)
\* find / rfind's from: None (-1) or Some(i).
Froms == {-1, 1}

\* Filters the context is configured with: nothing disabled; get of the
\* byte arrays; every method of the text arrays and subarray of the bytes.
Filters ==
  { {}, {<<"byte_array", "get">>},
    {<<"string_array", m>> : m \in Methods} \cup {<<"byte_array", "subarray">>} }

\* filter_macro!(filter .., godot_core, $m, method)?
\* (Faulty variant: the byte array interface is named whatever the type.)
FilterKeyOneInterface(t, m) == <<"byte_array", m>>
FilterKey(t, m) == <<t, m>>
Denied(t, m) == FilterKey(t, m) \in filter

\* self.get_value::<$t>(var): the array behind the handle, if it is one of $t.
GetValue(t, h) ==
  IF h \in 1..Len(resources) /\ resources[h].t = t
    THEN [ok |-> TRUE, a |-> resources[h].a]
    ELSE [ok |-> FALSE, a |-> <<>>]

\* PackedArray::subarray(begin, end): both ends are clamped to the length.
Clamp(x, len) == IF x < len THEN x ELSE len
Subarray(a, b, e) == Slice(a, Clamp(b, Len(a)), Clamp(e, Len(a)))

Ok(seq, num) == [st |-> "ok", seq |-> seq, num |-> num]
Failed(st) == [st |-> st, seq |-> <<>>, num |-> 0]

Return(op, t, h, b, e, v, r) ==
  /\ pret' = [op |-> op, t |-> t, h |-> h, b |-> b, e |-> e, v |-> v,
              st |-> r.st, seq |-> r.seq, num |-> r.num]
  /\ UNCHANGED <<vars, packRest, filter>>

\* The common shape of the operations on a handle: filter, get_value, body.
Reader(op, t, h, b, e, v, Body(_)) ==
  LET g == GetValue(t, h) IN
  IF Denied(t, op) THEN Failed("denied")
  ELSE IF ~g.ok THEN Failed("handle")
  ELSE Body(g.a)

\* from(val): set_into_var of the array made of val.
From(t, seq) ==
  /\ Len(resources) < MaxTable
  /\ IF Denied(t, "from")
       THEN /\ resources' = resources
            /\ Return("from", t, 0, 0, 0, <<>>, [Failed("denied") EXCEPT !.seq = seq])
       ELSE /\ resources' = Append(resources, [t |-> t, a |-> Stored(t, seq)])
            /\ Return("from", t, Len(resources) + 1, 0, 0, <<>>, Ok(seq, 0))

\* to(var)
To(t, h) ==
  /\ Return("to", t, h, 0, 0, <<>>,
            Reader("to", t, h, 0, 0, <<>>, LAMBDA a : Ok(Wired(t, a), 0)))
  /\ resources' = resources

\* slice(var, begin, end): v.as_slice().get(begin..end)
SliceOp(t, h, b, e) ==
  /\ Return("slice", t, h, b, e, <<>>,
            Reader("slice", t, h, b, e, <<>>,
                   LAMBDA a : IF SliceGet(Len(a), b, e)
                                THEN Ok(Wired(t, Slice(a, b, e)), 0)
                                ELSE Failed("bound")))
  /\ resources' = resources

\* len(var)
LenOp(t, h) ==
  /\ Return("len", t, h, 0, 0, <<>>,
            Reader("len", t, h, 0, 0, <<>>, LAMBDA a : Ok(<<>>, Len(a))))
  /\ resources' = resources

\* is_empty(var): 1 for true
IsEmpty(t, h) ==
  /\ Return("is-empty", t, h, 0, 0, <<>>,
            Reader("is-empty", t, h, 0, 0, <<>>,
                   LAMBDA a : Ok(<<>>, IF a = <<>> THEN 1 ELSE 0)))
  /\ resources' = resources

\* get(var, i): v.as_slice().get(i)
GetOp(t, h, i) ==
  /\ Return("get", t, h, i, 0, <<>>,
            Reader("get", t, h, i, 0, <<>>,
                   LAMBDA a : IF i < Len(a) THEN Ok(<<ToWire(t, a[i + 1])>>, 0)
                                            ELSE Failed("bound")))
  /\ resources' = resources

\* contains(var, val): 1 for true
Contains(t, h, v) ==
  /\ Return("contains", t, h, 0, 0, v,
            Reader("contains", t, h, 0, 0, v,
                   LAMBDA a : Ok(<<>>, IF \E k \in 1..Len(a) : a[k] = FromWire(t, v)
                                         THEN 1 ELSE 0)))
  /\ resources' = resources

\* count(var, val)
Count(t, h, v) ==
  /\ Return("count", t, h, 0, 0, v,
            Reader("count", t, h, 0, 0, v,
                   LAMBDA a : Ok(<<>>, Cardinality({k \in 1..Len(a) : a[k] = FromWire(t, v)}))))
  /\ resources' = resources

\* The positions of val in the array, counted from 0.
Positions(t, a, v) == {k \in 0..(Len(a) - 1) : a[k + 1] = FromWire(t, v)}
Least(S) == IF S = {} THEN -1 ELSE CHOOSE x \in S : \A y \in S : x <= y
Greatest(S) == IF S = {} THEN -1 ELSE CHOOSE x \in S : \A y \in S : x >= y

\* find(var, val, from): the first position at or after from (0 for None)
Find(t, h, v, from) ==
  /\ Return("find", t, h, from, 0, v,
            Reader("find", t, h, from, 0, v,
                   LAMBDA a : Ok(<<>>, Least({k \in Positions(t, a, v) : k >= from}))))
  /\ resources' = resources

\* rfind(var, val, from): the last position at or before from (the end for
\* None and for a from past the end)
Rfind(t, h, v, from) ==
  /\ Return("rfind", t, h, from, 0, v,
            Reader("rfind", t, h, from, 0, v,
                   LAMBDA a : Ok(<<>>, Greatest({k \in Positions(t, a, v) :
                                                  from < 0 \/ from >= Len(a) \/ k <= from}))))
  /\ resources' = resources

\* subarray(var, begin, end): set_into_var(v.subarray(begin, end))
SubarrayOp(t, h, b, e) ==
  /\ Len(resources) < MaxTable
  /\ LET r == Reader("subarray", t, h, b, e, <<>>,
                     LAMBDA a : Ok(Subarray(a, b, e), Len(resources) + 1)) IN
       /\ Return("subarray", t, h, b, e, <<>>, r)
       /\ resources' = IF r.st = "ok"
                         THEN Append(resources, [t |-> t, a |-> r.seq])
                         ELSE resources

\* A context with an empty resource table and a filter from its configuration.
InitPacked ==
  /\ CoreIdle /\ PackRestIdle
  /\ resources = <<>>
  /\ filter \in Filters
  /\ pret = NoPacked

NextPacked ==
  \/ \E t \in ElemTypes : \E seq \in Seqs(t) : From(t, seq)
  \/ \E t \in ElemTypes, h \in Handles : To(t, h)
  \/ \E t \in ElemTypes, h \in Handles, r \in Ranges : SliceOp(t, h, r[1], r[2])
  \/ \E t \in ElemTypes, h \in Handles : LenOp(t, h)
  \/ \E t \in ElemTypes, h \in Handles : IsEmpty(t, h)
  \/ \E t \in ElemTypes, h \in Handles, i \in Indices : GetOp(t, h, i)
  \/ \E t \in ElemTypes, h \in Handles : \E v \in Elems(t) : Contains(t, h, v)
  \/ \E t \in ElemTypes, h \in Handles : \E v \in Elems(t) : Count(t, h, v)
  \/ \E t \in ElemTypes, h \in Handles, f \in Froms : \E v \in Elems(t) : Find(t, h, v, f)
  \/ \E t \in ElemTypes, h \in Handles, f \in Froms : \E v \in Elems(t) : Rfind(t, h, v, f)
  \/ \E t \in ElemTypes, h \in Handles, r \in Ranges : SubarrayOp(t, h, r[1], r[2])

SpecPacked == InitPacked /\ [][NextPacked]_packVars

(***************************************************************************)
(* Array adapters: properties                                              *)
(***************************************************************************)

\* The call reached the array behind its handle.
OnArray == pret.st \notin {"denied", "handle"}
\* What a subarray call returned: the array behind the handle it made.
Made == IF pret.st = "ok" /\ pret.op = "subarray" THEN resources[pret.num].a ELSE pret.seq

\* C22: on an array of length L, get(h, i) succeeds exactly when i < L, and
\* slice(h, b, e) and subarray(h, b, e) exactly when b <= e <= L, returning
\* the elements at b .. e-1 in order; every other call fails with the
\* out-of-bound error, nothing is clamped.
C22_AdapterBounds ==
  (pret.op \in {"get", "slice", "subarray"} /\ OnArray) =>
    LET a == resources[pret.h].a
        inside == IF pret.op = "get" THEN pret.b < Len(a)
                  ELSE pret.b <= pret.e /\ pret.e <= Len(a)
    IN /\ pret.st = IF inside THEN "ok" ELSE "bound"
       /\ pret.st = "ok" =>
            Made = IF pret.op = "get" THEN <<a[pret.b + 1]>>
                   ELSE SubSeq(a, pret.b + 1, pret.e)

\* A call fails with the capability error exactly when its method is
\* disabled for its interface; len of a live handle still answers.
DeniedWhenDisabled ==
  /\ (pret.st = "denied") <=> (<<pret.t, pret.op>> \in filter)
  /\ (pret.op = "len" /\ <<pret.t, "len">> \notin filter
        /\ pret.h \in 1..Len(resources) /\ resources[pret.h].t = pret.t)
       => (pret.st = "ok" /\ pret.num = Len(resources[pret.h].a))

\* A refused call made no array and returned nothing.
DeniedDoesNothing ==
  pret'.st = "denied" =>
    /\ resources' = resources
    /\ pret'.num = 0
    /\ pret'.op # "from" => pret'.seq = <<>>

\* C23: a call to a method that the filter disables for its interface fails
\* with the capability error before anything is done: no handle is looked
\* up, no array is made; every method not disabled, of that interface and
\* of the others, answers as usual.
C23_CapabilityFilter == [](DeniedWhenDisabled) /\ [][DeniedDoesNothing]_packVars

\* get is disabled for the byte arrays and len of one of them answers.
C23_Witness ==
  /\ <<"byte_array", "get">> \in filter
  /\ pret.op = "len" /\ pret.t = "byte_array" /\ pret.st = "ok" /\ pret.num = 5

\* to or len, called on the handle that from has just returned.
AfterFrom(op) ==
  /\ pret.op = "from" /\ pret.st = "ok"
  /\ pret'.op = op /\ pret'.t = pret.t /\ pret'.h = pret.h /\ pret'.st = "ok"

RoundTrip ==
  /\ AfterFrom("to") => pret'.seq = pret.seq
  /\ AfterFrom("len") => pret'.num = Len(pret.seq)

\* C24: for every element type and every sequence seq, to(from(seq)) is seq,
\* element for element, and len(from(seq)) is the length of seq.
C24_RoundTrip == [][RoundTrip]_packVars

(***************************************************************************)
(* Object registry: the registry operations of WasmInstance and the array  *)
(* functions of the registry bridge, on an initialized instance.  The      *)
(* registry itself is a table of slots, handle h in slot h, a free slot     *)
(* holding nil.                                                            *)
(***************************************************************************)
MaxSlots == 2

\* Values the host registers: two objects and an array.
Objs == {"a", "b", "arr"}
\* Indices the operations are called with (i64).
Ixs == {-1, 0, 1, 2, MaxSlots + 1}

NOT_ENABLED == "Object registry not enabled!"
VALUE_NULL == "Value is null!"
TRY_FROM_INT == "out of range integral type conversion attempted"
NOT_ARRAY == "not an array"

\* StoreData::get_registry / get_registry_mut
GetRegistry == object_registry # NoRegistry

\* usize::try_from(_ix)
\* (Faulty variant: the index is taken one further.)
TryFromShifted(ix) == [ok |-> ix >= 0, v |-> ix + 1]
TryFrom(ix) == [ok |-> ix >= 0, v |-> ix]

\* ObjectRegistry: the handles bound, the value of a handle, the handles
\* register may return, and the slots after binding or freeing one.
Registered(reg, h) == h \in 1..Len(reg) /\ reg[h] # NilVariant
RegGet(reg, h) == IF Registered(reg, h) THEN reg[h] ELSE NilVariant
\* (Faulty variant: the first handle handed out is 0.)
FreeHandlesFromZero(reg) ==
  LET free == {h \in 0..(Len(reg) - 1) : h = 0 \/ reg[h] = NilVariant} IN
  IF free # {} THEN free ELSE {Len(reg)}
FreeHandles(reg) ==
  LET free == {h \in 1..Len(reg) : reg[h] = NilVariant} IN
  IF free # {} THEN free ELSE {Len(reg) + 1}
Bind(reg, h, v) ==
  IF h \in 1..Len(reg) THEN [reg EXCEPT ![h] = v] ELSE Append(reg, v)

\* What the call returned: a value, or the handle h (0: none).
RegReturn(op, ix, obj, st, val, h) ==
  /\ rret' = [op |-> op, ix |-> ix, obj |-> obj, st |-> st, val |-> val, h |-> h]
  /\ UNCHANGED <<vars, linkVars, regRest>>

RegFail(op, ix, obj, st) ==
  /\ RegReturn(op, ix, obj, st, NilVariant, 0)
  /\ UNCHANGED object_registry

\* register(v) on an enabled registry, within the slots modelled.
RegRegister(op, ix, v) ==
  \E h \in FreeHandles(object_registry) :
    /\ h <= MaxSlots
    /\ object_registry' = Bind(object_registry, h, v)
    /\ RegReturn(op, ix, v, "ok", NilVariant, h)

\* unregister(h): the value bound, the slot freed; nil for a free handle.
RegUnregister(op, ix, obj, h) ==
  /\ object_registry' = IF Registered(object_registry, h)
                          THEN Bind(object_registry, h, NilVariant)
                          ELSE object_registry
  /\ RegReturn(op, ix, obj, "ok", RegGet(object_registry, h), 0)

\* replace(h, v): the value bound before, v bound; nil for a free handle.
RegReplace(op, ix, v, h) ==
  /\ object_registry' = IF Registered(object_registry, h)
                          THEN Bind(object_registry, h, v)
                          ELSE object_registry
  /\ RegReturn(op, ix, v, "ok", RegGet(object_registry, h), 0)

\* Variant: nil is registered like any other value.
RegisterObjectAnyValue(obj) ==
  IF ~GetRegistry THEN RegFail("register_object", 0, obj, NOT_ENABLED)
  ELSE RegRegister("register_object", 0, obj)

\* register_object(obj)
RegisterObject(obj) ==
  IF obj = NilVariant THEN RegFail("register_object", 0, obj, VALUE_NULL)
  ELSE IF ~GetRegistry THEN RegFail("register_object", 0, obj, NOT_ENABLED)
  ELSE RegRegister("register_object", 0, obj)

\* registry_get(ix)
RegistryGet(ix) ==
  IF ~GetRegistry THEN RegFail("registry_get", ix, NilVariant, NOT_ENABLED)
  ELSE IF ~TryFrom(ix).ok THEN RegFail("registry_get", ix, NilVariant, TRY_FROM_INT)
  ELSE /\ RegReturn("registry_get", ix, NilVariant, "ok",
                     RegGet(object_registry, TryFrom(ix).v), 0)
       /\ UNCHANGED object_registry

\* registry_set(ix, obj)
RegistrySet(ix, obj) ==
  IF ~TryFrom(ix).ok THEN RegFail("registry_set", ix, obj, TRY_FROM_INT)
  ELSE IF ~GetRegistry THEN RegFail("registry_set", ix, obj, NOT_ENABLED)
  ELSE IF obj = NilVariant THEN RegUnregister("registry_set", ix, obj, TryFrom(ix).v)
  ELSE RegReplace("registry_set", ix, obj, TryFrom(ix).v)

\* unregister_object(ix)
UnregisterObject(ix) ==
  IF ~GetRegistry THEN RegFail("unregister_object", ix, NilVariant, NOT_ENABLED)
  ELSE IF ~TryFrom(ix).ok THEN RegFail("unregister_object", ix, NilVariant, TRY_FROM_INT)
  ELSE RegUnregister("unregister_object", ix, NilVariant, TryFrom(ix).v)

\* The bridge's functions are linked for a guest in registry mode only.
BridgeLinked == config.extern_bind = "Registry"

\* array.new
ArrayNew ==
  /\ BridgeLinked
  /\ IF ~GetRegistry THEN RegFail("array.new", 0, "arr", NOT_ENABLED)
     ELSE RegRegister("array.new", 0, "arr")

\* array.len(i): the array behind handle i (u32)
ArrayLen(i) ==
  /\ BridgeLinked
  /\ i >= 0
  /\ IF ~GetRegistry THEN RegFail("array.len", i, NilVariant, NOT_ENABLED)
     ELSE IF RegGet(object_registry, i) # "arr"
       THEN RegFail("array.len", i, NilVariant, NOT_ARRAY)
     ELSE /\ RegReturn("array.len", i, NilVariant, "ok", NilVariant, 0)
          /\ UNCHANGED object_registry

\* config.extern_bind == ExternBindingType::Registry
\* (Faulty variant: any binding but None makes a registry.)
RegistryModeAnyBinding(c) == c.extern_bind # "None"
RegistryMode(c) == c.extern_bind = "Registry"

\* InstanceData::instantiate: the registry is made in registry mode only.
InitRegistry ==
  /\ CoreIdle /\ RegRestIdle
  /\ graph = <<>> /\ host = {} /\ frames = <<>> /\ insts = {} /\ made = <<>>
  /\ result = NoResult
  /\ config \in [extern_bind : ExternBindings, with_wasi : {FALSE}]
  /\ object_registry = IF RegistryMode(config) THEN <<>> ELSE NoRegistry
  /\ rret = NoRegistryCall

NextRegistry ==
  \/ \E obj \in Objs \cup {NilVariant} : RegisterObject(obj)
  \/ \E ix \in Ixs : RegistryGet(ix)
  \/ \E ix \in Ixs, obj \in Objs \cup {NilVariant} : RegistrySet(ix, obj)
  \/ \E ix \in Ixs : UnregisterObject(ix)
  \/ ArrayNew
  \/ \E ix \in Ixs : ArrayLen(ix)

SpecRegistry == InitRegistry /\ [][NextRegistry]_regVars

(***************************************************************************)
(* Object registry: properties                                             *)
(***************************************************************************)

\* The host operations that take a handle, and the handle they were given.
HandleOps == {"registry_get", "registry_set", "unregister_object"}
Unbound(reg, ix) == ix < 0 \/ ~Registered(reg, ix)

\* get(h) right after h = register(v) returns v.
GetAfterRegister ==
  (/\ rret.op = "register_object" /\ rret.st = "ok"
   /\ rret'.op = "registry_get" /\ rret'.ix = rret.h)
    => (rret'.st = "ok" /\ rret'.val = rret.obj)

\* unregister(h) of a bound handle returns its value; get(h) is nil after.
UnregisterFrees ==
  /\ (/\ GetRegistry /\ rret'.op = "unregister_object"
      /\ Registered(object_registry, rret'.ix))
       => /\ rret'.st = "ok" /\ rret'.val = object_registry[rret'.ix]
          /\ ~Registered(object_registry', rret'.ix)
  /\ (/\ rret.op = "unregister_object" /\ rret.st = "ok"
      /\ rret'.op = "registry_get" /\ rret'.ix = rret.ix)
       => (rret'.st = "ok" /\ rret'.val = NilVariant)

\* A handle that is not bound gets nil and nothing changes.
TolerantOfUnbound ==
  (/\ GetRegistry /\ rret'.op \in HandleOps
   /\ Unbound(object_registry, rret'.ix))
    => (rret'.val = NilVariant /\ object_registry' = object_registry)

\* C25: in registry mode, get(h) after h = register(v) returns v;
\* unregister(h) returns the value bound to h and get(h) is nil afterwards,
\* without error; get, replace and unregister on a handle that is not bound
\* (never bound, freed, out of range) return nil and change nothing.
C25_RegistryRoundTrip ==
  [][GetAfterRegister /\ UnregisterFrees /\ TolerantOfUnbound]_regVars

\* get has just returned the value registered under the handle asked for,
\* after an earlier handle was freed and bound again.
C25_Witness ==
  /\ rret.op = "registry_get" /\ rret.st = "ok" /\ rret.ix = 2
  /\ rret.val = "b" /\ object_registry = <<"arr", "b">>

RegisterOps == {"register_object", "array.new"}
SlotHandles == 0..(MaxSlots + 1)

\* No register has returned 0 and get(0) is nil.
ZeroIsNoHandle ==
  /\ (rret.op \in RegisterOps /\ rret.st = "ok") => rret.h >= 1
  /\ (rret.op = "registry_get" /\ rret.ix = 0) => rret.val = NilVariant
  /\ GetRegistry => ~Registered(object_registry, 0)

\* register binds a handle that was free and leaves the others alone; a
\* free handle becomes bound by a register that returns it, and only so.
BoundByRegisterOnly ==
  GetRegistry =>
    /\ (rret'.op \in RegisterOps /\ rret'.st = "ok") =>
         /\ ~Registered(object_registry, rret'.h)
         /\ RegGet(object_registry', rret'.h) = rret'.obj
         /\ \A g \in SlotHandles \ {rret'.h} :
              RegGet(object_registry', g) = RegGet(object_registry, g)
    /\ \A g \in SlotHandles :
         (~Registered(object_registry, g) /\ Registered(object_registry', g))
           => (rret'.op \in RegisterOps /\ rret'.st = "ok" /\ rret'.h = g)

\* C26: handle 0 is never valid: register never returns 0, get(0) is nil,
\* handles bound at the same time are distinct, and a handle freed by
\* unregister stays nil until a later register binds it again.
C26_ZeroNeverValid == [](ZeroIsNoHandle) /\ [][BoundByRegisterOnly]_regVars

\* register has returned handle 1 for the second time, handle 2 being bound.
C26_Witness ==
  /\ rret.op = "register_object" /\ rret.st = "ok" /\ rret.h = 1
  /\ GetRegistry /\ Len(object_registry) = 2 /\ Registered(object_registry, 2)

\* C27 as stated: without registry mode every registry operation fails with
\* 'Object registry not enabled!', and no registry is made.
C27_DisabledFailsNotEnabled ==
  config.extern_bind # "Registry" =>
    /\ object_registry = NoRegistry
    /\ rret.op # "none" => rret.st = NOT_ENABLED

\* The arguments pass the checks made before the registry is looked up.
WellFormed ==
  /\ ~(rret.op = "register_object" /\ rret.obj = NilVariant)
  /\ ~(rret.op = "registry_set" /\ rret.ix < 0)

\* C27, amended: without registry mode no registry is made and every
\* registry operation fails and returns nil: with 'Object registry not
\* enabled!' when its arguments are well formed, and with the error of the
\* argument check for register_object(nil) and for registry_set with a
\* negative index, which are checked first.
C27_DisabledFails ==
  config.extern_bind # "Registry" =>
    /\ object_registry = NoRegistry
    /\ rret.op # "none" =>
         /\ rret.val = NilVariant /\ rret.h = 0
         /\ rret.st = IF WellFormed THEN NOT_ENABLED
                      ELSE IF rret.op = "register_object" THEN VALUE_NULL
                      ELSE TRY_FROM_INT

\* unregister_object was refused in opaque-reference mode.
C27_Witness ==
  /\ config.extern_bind = "Native"
  /\ rret.op = "unregister_object" /\ rret.st = NOT_ENABLED

(***************************************************************************)
(* The pending error signal: StoreData.error_signal under signal_error and *)
(* signal_error_cancel, called one after the other on an initialized       *)
(* instance.  Each call is unwrap_data, acquire_store and the closure,     *)
(* which replaces or takes the Option; the lock is free before and after.  *)
(***************************************************************************)
MaxCalls == 4
Texts == {"", "m1", "m2"}

\* The core variables a signal call leaves as they were.
signalFrame == <<cell, data, memory, locked, mutex_raw, pc, stack, cur, held, everFailed>>

SignalCall(op, arg) ==
  /\ Len(calls) < MaxCalls
  /\ data # NoData
  /\ ~locked
  /\ error_signal' = BodySignal(op, arg)
  /\ ret' = [NoRet EXCEPT !.t = 1, !.op = op, !.ok = TRUE,
                          !.val = BodyVal(op, arg, TRUE), !.pre = TRUE]
  /\ calls' = Append(calls, [op |-> op, arg |-> arg])
  /\ UNCHANGED <<signalFrame, sigRest>>

\* signal_error(msg): error_signal.replace(msg.to_string())
SignalError(m) == SignalCall("signal_error", m)

\* signal_error_cancel(): error_signal.take()
SignalErrorCancel == SignalCall("signal_error_cancel", "-")

InitSignal ==
  /\ InitDone
  /\ calls = <<>>

NextSignal ==
  \/ \E m \in Texts : SignalError(m)
  \/ SignalErrorCancel

SpecSignal == InitSignal /\ [][NextSignal]_<<vars, sigVars>>

\* The message of the most recent signal_error of h that no
\* signal_error_cancel of h has followed, if there is one.
Pending(h) ==
  LET S == {i \in 1..Len(h) :
              /\ h[i].op = "signal_error"
              /\ \A j \in (i + 1)..Len(h) : h[j].op # "signal_error_cancel"} IN
    IF S = {} THEN NoSignal
    ELSE h[CHOOSE i \in S : \A j \in S : j <= i].arg

Earlier == SubSeq(calls, 1, Len(calls) - 1)
LastCall == calls[Len(calls)]

\* C28: the pending error signal is a single slot: each signal_error and
\* signal_error_cancel call returns the message of the most recent earlier
\* signal_error that no cancel has followed, none if there is none; after
\* signal_error(m) the slot holds m, after signal_error_cancel it is empty,
\* and the second of two cancels in a row returns none.
C28_SingleSlot ==
  calls # <<>> =>
    /\ ret.op = LastCall.op /\ ret.ok
    /\ ret.val = Pending(Earlier)
    /\ LastCall.op = "signal_error" => error_signal = LastCall.arg
    /\ LastCall.op = "signal_error_cancel" => error_signal = NoSignal
    /\ (Len(calls) >= 2 /\ LastCall.op = "signal_error_cancel"
          /\ Earlier[Len(Earlier)].op = "signal_error_cancel") => ret.val = NoSignal

\* A cancel returned the second of two messages signalled in a row.
C28_Witness ==
  /\ Len(calls) = 3
  /\ calls[1] = [op |-> "signal_error", arg |-> "m1"]
  /\ calls[2] = [op |-> "signal_error", arg |-> "m2"]
  /\ calls[3].op = "signal_error_cancel"
  /\ ret.val = "m2" /\ error_signal = NoSignal

(***************************************************************************)
(* Opaque references: variant_to_externref, externref_to_variant and the   *)
(* typed decoder externref_to_object of the native binding.  The guest     *)
(* holds references in a few slots; a reference is null or carries a       *)
(* payload of some Rust type, a Variant or anything else a host function   *)
(* wrapped.                                                                *)
(***************************************************************************)
MaxRefs == 2
Slots == 1..MaxRefs

\* Host values, each "<type>:<value>", and nil.
Variants == {NilVariant, "int:7", "str:x", "str:"}
\* Payloads that are not a Variant.
Foreign == {"i32:7", "String:x"}
\* The types T of externref_to_object::<T>.
ObjectTypes == {"int", "str"}

NOT_VARIANT == "External reference is not a Godot variant"
NULL_VALUE == "Null value"
FROM_VARIANT == "FromVariantError"

ExternRefNew(ty, v) == [payload |-> ty, v |-> v]
IsNil(v) == v = NilVariant

\* Variant: nil is wrapped like any other value.
VariantToExternrefAlwaysSome(object) == ExternRefNew("Variant", object)

\* variant_to_externref: None for nil, else Some(ExternRef::new(object)).
VariantToExternref(object) ==
  IF IsNil(object) THEN NullRef ELSE ExternRefNew("Variant", object)

\* v.data().downcast_ref::<Variant>().cloned().ok_or_else(..)
Downcast(r) ==
  IF r.payload = "Variant" THEN [st |-> "ok", val |-> r.v]
  ELSE [st |-> NOT_VARIANT, val |-> "-"]

\* externref_to_variant: Variant::new() for None.
ExternrefToVariant(ext) ==
  IF ext = NullRef THEN [st |-> "ok", val |-> NilVariant] ELSE Downcast(ext)

\* externref_to_variant_nonnull: the 'Null value' trap for None.
ExternrefToVariantNonnull(ext) ==
  IF ext = NullRef THEN [st |-> NULL_VALUE, val |-> "-"] ELSE Downcast(ext)

\* The type of a value: what stands before the colon.
VariantType(v) ==
  IF v = NilVariant THEN "nil"
  ELSE IF v = "int:7" THEN "int" ELSE "str"

\* T::from_variant(&v)
FromVariant(ty, v) ==
  IF VariantType(v) = ty THEN [st |-> "ok", val |-> v]
  ELSE [st |-> FROM_VARIANT, val |-> "-"]

\* externref_to_object::<T>
ExternrefToObject(ty, ext) ==
  LET r == ExternrefToVariantNonnull(ext) IN
    IF r.st = "ok" THEN FromVariant(ty, r.val) ELSE r

\* A host function returns variant_to_externref(v) and the guest keeps it.
Encode(k, v) ==
  LET r == VariantToExternref(v) IN
    /\ externs' = [externs EXCEPT ![k] = r]
    /\ origin' = [origin EXCEPT ![k] = v]
    /\ xret' = [NoConversion EXCEPT !.op = "variant_to_externref", !.v = v, !.ref = r]
    /\ UNCHANGED <<vars, refRest>>

\* The guest obtains a reference that some other host code made.
Obtain(k, f) ==
  /\ externs' = [externs EXCEPT ![k] = ExternRefNew("Other", f)]
  /\ origin' = [origin EXCEPT ![k] = "-"]
  /\ xret' = NoConversion
  /\ UNCHANGED <<vars, refRest>>

\* The guest passes the reference of slot k to a host function that decodes it.
DecodeVariant(k) ==
  LET r == ExternrefToVariant(externs[k]) IN
    /\ xret' = [NoConversion EXCEPT !.op = "externref_to_variant", !.ref = externs[k],
                                    !.from = origin[k], !.st = r.st, !.val = r.val]
    /\ UNCHANGED <<vars, refRest, externs, origin>>

DecodeObject(k, ty) ==
  LET r == ExternrefToObject(ty, externs[k]) IN
    /\ xret' = [NoConversion EXCEPT !.op = "externref_to_object", !.ty = ty,
                                    !.ref = externs[k], !.from = origin[k],
                                    !.st = r.st, !.val = r.val]
    /\ UNCHANGED <<vars, refRest, externs, origin>>

InitExternref ==
  /\ CoreIdle /\ RefRestIdle
  /\ externs = [k \in Slots |-> NullRef]
  /\ origin = [k \in Slots |-> "-"]
  /\ xret = NoConversion

NextExternref ==
  \/ \E k \in Slots, v \in Variants : Encode(k, v)
  \/ \E k \in Slots, f \in Foreign : Obtain(k, f)
  \/ \E k \in Slots : DecodeVariant(k)
  \/ \E k \in Slots, ty \in ObjectTypes : DecodeObject(k, ty)

SpecExternref == InitExternref /\ [][NextExternref]_refVars

Decoders == {"externref_to_variant", "externref_to_object"}

\* C29: decoding an opaque reference is validated: a non-null reference
\* whose payload is not a host value fails in every decoder with 'External
\* reference is not a Godot variant'; the null reference decodes to nil in
\* externref_to_variant and fails with 'Null value' in externref_to_object;
\* encoding nil gives the null reference, and externref_to_variant gives
\* back every host value that variant_to_externref encoded, nil included.
C29_DecodingValidated ==
  /\ (xret.op \in Decoders /\ xret.ref # NullRef /\ xret.ref.payload # "Variant")
       => xret.st = NOT_VARIANT
  /\ (xret.op = "externref_to_variant" /\ xret.ref = NullRef)
       => (xret.st = "ok" /\ xret.val = NilVariant)
  /\ (xret.op = "externref_to_object" /\ xret.ref = NullRef) => xret.st = NULL_VALUE
  /\ (xret.op = "variant_to_externref" /\ xret.v = NilVariant) => xret.ref = NullRef
  /\ (xret.op = "variant_to_externref" /\ xret.v # NilVariant) => xret.ref # NullRef
  /\ (xret.op = "externref_to_variant" /\ xret.from \in Variants)
       => (xret.st = "ok" /\ xret.val = xret.from)

\* nil was encoded into a slot and decoded from it again, while the other
\* slot holds a reference that is not a host value.
C29_Witness ==
  /\ xret.op = "externref_to_variant" /\ xret.from = NilVariant /\ xret.val = NilVariant
  /\ \E k \in Slots : externs[k].payload = "Other"

(***************************************************************************)
(* The epoch deadline.  call_wasm and the callable made by                 *)
(* bind_wasm_callable arm the Store's deadline right before they enter the *)
(* guest; reset_epoch arms it again.  A background thread increments the   *)
(* engine's epoch.  Guest code checks the deadline at its yield points     *)
(* (function entries and loop back-edges) and traps when the epoch has     *)
(* reached it.  One thread is followed: a guest call may call a host       *)
(* function, and the host function may call into the guest again or reset  *)
(* the deadline.                                                           *)
(***************************************************************************)
MaxEpoch == 4
MaxNest == 2
Timeouts == {0, 1, 2}
CallKinds == {"call_wasm", "invoke"}
INTERRUPT == "interrupt"

\* Variant: a timeout of 0 arms a deadline too.
ArmsAlways(v) == v >= 0

\* if let v @ 1.. = store.data().epoch_timeout
Arms(v) == v >= 1

\* store.set_epoch_deadline(v): v ticks beyond the current epoch.
SetEpochDeadline(v) == epoch + v

\* The deadline after the arming code of a call or of reset_epoch.
Armed == IF Arms(epoch_timeout) THEN SetEpochDeadline(epoch_timeout) ELSE epoch_deadline

InGuest == activ # <<>> /\ activ[Len(activ)].at = "guest"
InHost == activ # <<>> /\ activ[Len(activ)].at = "host"
Outermost == SubSeq(activ, 1, Len(activ) - 1)
At(where) == [activ EXCEPT ![Len(activ)].at = where]

\* The ticking thread: ENGINE.increment_epoch().
Tick ==
  /\ epoch < MaxEpoch
  /\ epoch' = epoch + 1
  /\ UNCHANGED <<vars, epochRest, epoch_timeout, epoch_deadline, trapping, activ, eret>>

\* call_wasm, or invoke of a bound callable, up to the guest's first
\* instruction: from the host application, or from a host function the
\* guest has called.
GuestCall(kind) ==
  /\ activ = <<>> \/ InHost
  /\ Len(activ) < MaxNest
  /\ epoch_deadline' = Armed
  /\ activ' = Append(activ, [op |-> kind, at |-> "guest"])
  /\ eret' = [op |-> kind, st |-> "ok", at |-> epoch, was |-> epoch_deadline]
  /\ UNCHANGED <<vars, epochRest, epoch, epoch_timeout, trapping>>

CallWasm == GuestCall("call_wasm")
Invoke == GuestCall("invoke")

\* The guest reaches a yield point: it goes on, or the Store traps and the
\* call fails.
GuestYield ==
  /\ InGuest
  /\ IF trapping /\ epoch >= epoch_deadline
       THEN /\ activ' = Outermost
            /\ eret' = [op |-> "yield", st |-> INTERRUPT, at |-> epoch, was |-> epoch_deadline]
       ELSE /\ activ' = activ
            /\ eret' = [op |-> "yield", st |-> "ok", at |-> epoch, was |-> epoch_deadline]
  /\ UNCHANGED <<vars, epochRest, epoch, epoch_timeout, epoch_deadline, trapping>>

\* The export returns: call_unchecked is Ok.
GuestReturn ==
  /\ InGuest
  /\ activ' = Outermost
  /\ eret' = [op |-> "return", st |-> "ok", at |-> epoch, was |-> epoch_deadline]
  /\ UNCHANGED <<vars, epochRest, epoch, epoch_timeout, epoch_deadline, trapping>>

\* The guest calls an imported host function, and the function returns.
HostCall ==
  /\ InGuest
  /\ activ' = At("host")
  /\ eret' = [op |-> "host", st |-> "ok", at |-> epoch, was |-> epoch_deadline]
  /\ UNCHANGED <<vars, epochRest, epoch, epoch_timeout, epoch_deadline, trapping>>

HostReturn ==
  /\ InHost
  /\ activ' = At("guest")
  /\ eret' = [op |-> "host_return", st |-> "ok", at |-> epoch, was |-> epoch_deadline]
  /\ UNCHANGED <<vars, epochRest, epoch, epoch_timeout, epoch_deadline, trapping>>

\* reset_epoch, from the host application or from a host function.
ResetEpoch ==
  /\ activ = <<>> \/ InHost
  /\ epoch_deadline' = Armed
  /\ eret' = [op |-> "reset_epoch", st |-> "ok", at |-> epoch, was |-> epoch_deadline]
  /\ UNCHANGED <<vars, epochRest, epoch, epoch_timeout, trapping, activ>>

\* The Store as instantiate leaves it: the timeout is the configured one,
\* and with a timeout of at least one tick the Store traps at the deadline.
InitEpoch ==
  /\ CoreIdle /\ EpochRestIdle
  /\ epoch = 0
  /\ epoch_timeout \in Timeouts
  /\ epoch_deadline = 0
  /\ trapping \in BOOLEAN
  /\ epoch_timeout >= 1 => trapping
  /\ activ = <<>>
  /\ eret = NoStep

NextEpoch ==
  \/ Tick
  \/ CallWasm
  \/ Invoke
  \/ GuestYield
  \/ GuestReturn
  \/ HostCall
  \/ HostReturn
  \/ ResetEpoch

SpecEpoch == InitEpoch /\ [][NextEpoch]_epochVars

\* A call enters the guest in this step.
EntersGuest == Len(activ') = Len(activ) + 1

\* With a timeout of T >= 1 ticks the step that enters the guest leaves the
\* deadline T ticks after the current epoch; with T = 0 it leaves the
\* deadline as it was.
ArmedOnEntry ==
  EntersGuest =>
    /\ eret'.op \in CallKinds
    /\ epoch_timeout >= 1 => epoch_deadline' = epoch + epoch_timeout
    /\ epoch_timeout = 0 => epoch_deadline' = epoch_deadline

\* Once the epoch has passed the deadline the guest passes no yield point:
\* reaching one fails the call.
InterruptedPastDeadline ==
  (epoch_timeout >= 1 /\ InGuest /\ epoch > epoch_deadline /\ eret'.op = "yield"
     /\ eret' # eret)
    => /\ eret'.st = INTERRUPT
       /\ activ' = Outermost

\* While the guest runs with a timeout of T >= 1, the deadline is at most T
\* ticks ahead of the epoch.
DeadlineWithinTimeout ==
  (epoch_timeout >= 1 /\ activ # <<>>) => epoch_deadline <= epoch + epoch_timeout

\* C30: the epoch deadline bounds a guest call: with a timeout of T >= 1
\* every call_wasm and every invoke of a bound callable sets the deadline to
\* T ticks after the current epoch before guest code runs, and a guest call
\* still running when the epoch passes the deadline is interrupted and
\* fails rather than running on; with T = 0 the call arms no deadline.
C30_EpochDeadline ==
  /\ [](DeadlineWithinTimeout)
  /\ [][ArmedOnEntry /\ InterruptedPastDeadline]_epochVars

\* A nested guest call was interrupted one tick past its deadline, after it
\* had passed a yield point in time.
C30_Witness ==
  /\ epoch_timeout = 1
  /\ eret.op = "yield" /\ eret.st = INTERRUPT
  /\ eret.at = eret.was + 1
  /\ Len(activ) = 1 /\ InHost

(***************************************************************************)
(* The registry operations of the host API at their edges.                 *)
(***************************************************************************)
\* The call made in this step was op.
RegCalls(op) == rret'.op = op

\* The call returned nil and left the registry as it was.
NothingDone == rret'.val = NilVariant /\ rret'.h = 0 /\ object_registry' = object_registry

\* What unregistering handle ix does: the value bound is returned and the
\* handle freed, the others kept; nothing when the handle is free, negative,
\* or there is no registry.
Unregisters ==
  IF GetRegistry /\ rret'.ix >= 0 /\ Registered(object_registry, rret'.ix)
    THEN /\ rret'.st = "ok"
         /\ rret'.val = object_registry[rret'.ix]
         /\ ~Registered(object_registry', rret'.ix)
         /\ \A g \in SlotHandles \ {rret'.ix} :
              RegGet(object_registry', g) = RegGet(object_registry, g)
    ELSE NothingDone

RegistryEdges ==
  /\ (RegCalls("register_object") /\ rret'.obj = NilVariant)
       => (rret'.st = VALUE_NULL /\ NothingDone)
  /\ RegCalls("unregister_object") => Unregisters
  /\ (RegCalls("registry_set") /\ rret'.obj = NilVariant) => Unregisters
  /\ (RegCalls("registry_set") /\ rret'.obj # NilVariant /\ GetRegistry
        /\ rret'.ix >= 0 /\ Registered(object_registry, rret'.ix))
       => /\ rret'.st = "ok"
          /\ rret'.val = object_registry[rret'.ix]
          /\ RegGet(object_registry', rret'.ix) = rret'.obj
          /\ \A g \in SlotHandles \ {rret'.ix} :
               RegGet(object_registry', g) = RegGet(object_registry, g)
  /\ (rret'.op \in HandleOps /\ rret'.ix < 0)
       => (rret'.st \notin {"ok"} /\ NothingDone)

\* C36: register_object(nil) fails with 'Value is null!' and registers
\* nothing; registry_set(h, nil) does what unregister_object(h) does, and
\* registry_set(h, v) with v not nil replaces the value of a registered h
\* and returns the one before; registry_get, registry_set and
\* unregister_object with a negative handle fail, return nil and leave the
\* registry as it was.
C36_RegistryEdges == [][RegistryEdges]_regVars

\* registry_set(1, nil) returned the value of handle 1 and freed it, handle 2
\* staying bound.
C36_Witness ==
  /\ rret.op = "registry_set" /\ rret.obj = NilVariant /\ rret.ix = 1
  /\ rret.val # NilVariant
  /\ GetRegistry /\ ~Registered(object_registry, 1) /\ Registered(object_registry, 2)

(***************************************************************************)
(* The array functions of the registry bridge, as the guest calls them.    *)
(* An array is a host object behind a handle; what it holds is not         *)
(* followed here, so an element read from it is any host value or nil      *)
(* (pop of an empty array gives nil).  The functions come in three shapes: *)
(* array.new registers a new array; array.get, array.duplicate, array.pop  *)
(* and array.pop_front look the array up and register what they read; the  *)
(* others look the array up, and the values behind further handles, and    *)
(* work on the array alone.                                                *)
(***************************************************************************)
BridgeReading == {"array.get", "array.duplicate", "array.pop", "array.pop_front"}
BridgePlain ==
  {"array.len", "array.set", "array.count", "array.contains", "array.find",
   "array.rfind", "array.find_last", "array.invert", "array.sort", "array.clear",
   "array.remove", "array.erase", "array.resize", "array.push", "array.push_front",
   "array.insert"}
BridgeFns == {"array.new"} \cup BridgeReading \cup BridgePlain

\* Handles the guest passes (u32).
GuestHandles == {0, 1, 2, MaxSlots + 1}
\* What reading an array gives: a host value, another array, or nil.
Elements == Objs \cup {NilVariant}

\* Variant: whatever the handle refers to is taken for an array.
IsArrayAtAny(reg, v) == TRUE

\* VariantArray::from_variant(&reg.get_or_nil(v))?
IsArrayAt(reg, v) == RegGet(reg, v) = "arr"

\* The value array.get, array.duplicate, array.pop and array.pop_front
\* hand to register, e being the element read.
ReadValue(fn, e) == IF fn = "array.duplicate" THEN "arr" ELSE e

\* reg = get_registry_mut()?; v = from_variant(&reg.get_or_nil(v))?;
\* Ok(reg.register(..))
BridgeRead(fn, v, e) ==
  /\ BridgeLinked
  /\ IF ~GetRegistry THEN RegFail(fn, v, NilVariant, NOT_ENABLED)
     ELSE IF ~IsArrayAt(object_registry, v) THEN RegFail(fn, v, NilVariant, NOT_ARRAY)
     ELSE RegRegister(fn, v, ReadValue(fn, e))

\* reg = get_registry()?; v = from_variant(&reg.get_or_nil(v))?; the
\* values of the other handles by get_or_nil; the work on the array.
BridgeWork(fn, v) ==
  /\ BridgeLinked
  /\ IF ~GetRegistry THEN RegFail(fn, v, NilVariant, NOT_ENABLED)
     ELSE IF ~IsArrayAt(object_registry, v) THEN RegFail(fn, v, NilVariant, NOT_ARRAY)
     ELSE /\ RegReturn(fn, v, NilVariant, "ok", NilVariant, 0)
          /\ UNCHANGED object_registry

NextBridge ==
  \/ \E obj \in Objs : RegisterObject(obj)
  \/ \E ix \in GuestHandles : UnregisterObject(ix)
  \/ ArrayNew
  \/ \E fn \in BridgeReading, v \in GuestHandles, e \in Elements : BridgeRead(fn, v, e)
  \/ \E fn \in BridgePlain, v \in GuestHandles : BridgeWork(fn, v)

SpecBridge == InitRegistry /\ [][NextBridge]_regVars

\* The handles bound by this step, and the registry seen through get.
NewlyBound == {g \in SlotHandles : Registered(object_registry', g)
                                    /\ ~Registered(object_registry, g)}
SameBindings ==
  \A g \in SlotHandles : RegGet(object_registry', g) = RegGet(object_registry, g)
OthersKept ==
  \A g \in SlotHandles \ NewlyBound :
    RegGet(object_registry', g) = RegGet(object_registry, g)

\* A bridge function other than array.new fails exactly when there is no
\* registry or its handle does not refer to an array, and a failing call
\* leaves every binding as it was.
FailureLeavesRegistry ==
  rret'.op \in BridgeFns =>
    /\ rret'.op # "array.new" =>
         (rret'.st = "ok" <=> (GetRegistry /\ RegGet(object_registry, rret'.ix) = "arr"))
    /\ rret'.st # "ok" => SameBindings
    /\ (rret'.st = "ok" /\ rret'.op \in BridgePlain) => SameBindings

\* C32 as stated: a failing array.* call leaves the registered handles and
\* their values as they were; a successful array.new, array.get,
\* array.duplicate, array.pop or array.pop_front registers exactly one
\* handle, and every other array.* function registers none.
C32_OneHandleEach ==
  [][/\ FailureLeavesRegistry
     /\ (rret'.st = "ok" /\ rret'.op \in BridgeFns \ BridgePlain)
          => (Cardinality(NewlyBound) = 1 /\ OthersKept)]_regVars

\* C32, amended: a failing array.* call leaves the registered handles and
\* their values as they were; a successful array.new, array.get,
\* array.duplicate, array.pop or array.pop_front registers exactly one
\* handle when the value it registers is not nil and none when it is nil
\* (an element that is nil, pop or pop_front of an empty array), and every
\* other array.* function registers none.
C32_BridgeFrame ==
  [][/\ FailureLeavesRegistry
     /\ (rret'.st = "ok" /\ rret'.op \in BridgeFns \ BridgePlain)
          => /\ Cardinality(NewlyBound) = (IF rret'.obj = NilVariant THEN 0 ELSE 1)
             /\ NewlyBound = (IF rret'.obj = NilVariant THEN {} ELSE {rret'.h})
             /\ OthersKept]_regVars

\* array.pop registered the element it took under handle 2, the array
\* staying under handle 1.
C32_Witness ==
  /\ rret.op = "array.pop" /\ rret.st = "ok" /\ rret.ix = 1 /\ rret.h = 2
  /\ object_registry = <<"arr", "a">>

(***************************************************************************)
(* Calling a guest export: call_wasm(name, args) and the callable that     *)
(* bind_wasm_callable(name) returns.  Both convert the arguments the       *)
(* export has parameters for, check the count, arm the epoch deadline and  *)
(* run the export under acquire_store.                                     *)
(***************************************************************************)
MaxArgs == 3
GuestMod == 3

\* What the instance exports: functions with their parameter counts, and a
\* memory; "gone" is exported by nothing.
ExportNames == {"nop", "add", "memory", "gone"}
FuncParams == [nop |-> 0, add |-> 2]
IsExported(name) == name \in {"nop", "add", "memory"}
IsFunc(name) == name \in {"nop", "add"}

\* Arguments: a number, and a value to_raw cannot turn into a number.
ArgValues == {"1", "s"}
ArgLists == UNION {[1..n -> ArgValues] : n \in 0..MaxArgs}

NOT_EXPORTED == "Export does not exists"
NOT_A_FUNCTION == "Export is not a function"
TOO_FEW == "Too few parameter"
TO_RAW == "to_raw"
INVALID_CALLABLE == "invalid callable"

\* pi.zip(args): the arguments the export has parameters for.
Zip(pl, args) == SubSeq(args, 1, IF Len(args) < pl THEN Len(args) ELSE pl)

\* to_raw(&mut store, t, v)? fails on the first value that is no number.
ToRawFails(arr) == \E k \in 1..Len(arr) : arr[k] = "s"

Err(e, g) == [st |-> "err", err |-> e, val |-> <<>>, g |-> g]

\* f.call_unchecked and from_raw: the export runs, counts the run in the
\* guest's globals and returns its first parameter, if it has one.
RunExport(name, arr, g) ==
  [st |-> "ok", err |-> "", val |-> SubSeq(arr, 1, IF arr = <<>> THEN 0 ELSE 1),
   g |-> (g + 1) % GuestMod]

\* call_wasm: the closure passed to acquire_store.
CallWasmOutcome(name, args, g) ==
  IF ~IsExported(name) THEN Err(NOT_EXPORTED, g)
  ELSE IF ~IsFunc(name) THEN Err(NOT_A_FUNCTION, g)
  ELSE LET pl == FuncParams[name]
           arr == Zip(pl, args) IN
       IF ToRawFails(arr) THEN Err(TO_RAW, g)
       ELSE IF Len(arr) # pl THEN Err(TOO_FEW, g)
       ELSE RunExport(name, arr, g)

\* WasmCallable::invoke: the closure passed to acquire_store; a Callable
\* that is not valid runs nothing.
InvokeOutcome(c, args, g) ==
  IF ~c.valid THEN Err(INVALID_CALLABLE, g)
  ELSE LET pl == FuncParams[c.name]
           arr == Zip(pl, args) IN
       IF ToRawFails(arr) THEN Err(TO_RAW, g)
       ELSE IF Len(args) # pl THEN Err(TOO_FEW, g)
       ELSE RunExport(c.name, arr, g)

GuestCalled(op, name, args, o) ==
  /\ cret' = [op |-> op, name |-> name, args |-> args, st |-> o.st, err |-> o.err,
              val |-> o.val]
  /\ globals' = o.g

\* call_wasm(name, args)
CallWasmWith(name, args) ==
  /\ GuestCalled("call_wasm", name, args, CallWasmOutcome(name, args, globals))
  /\ UNCHANGED <<vars, callRest, callable>>

\* bind_wasm_callable(name): a Callable for an exported function, else
\* Callable::invalid().
BindWasmCallable(name) ==
  /\ callable' = [valid |-> IsExported(name) /\ IsFunc(name), name |-> name]
  /\ cret' = NoGuestCall
  /\ UNCHANGED <<vars, callRest, globals>>

\* The callable bound last is called with args.
InvokeWith(args) ==
  /\ callable # NoCallable
  /\ GuestCalled("invoke", callable.name, args, InvokeOutcome(callable, args, globals))
  /\ UNCHANGED <<vars, callRest, callable>>

InitCall ==
  /\ CoreIdle /\ CallRestIdle
  /\ globals = 0
  /\ callable = NoCallable
  /\ cret = NoGuestCall

NextCall ==
  \/ \E name \in ExportNames, args \in ArgLists : CallWasmWith(name, args)
  \/ \E name \in ExportNames : BindWasmCallable(name)
  \/ \E args \in ArgLists : InvokeWith(args)

SpecCall == InitCall /\ [][NextCall]_callVars

\* C33: invoking the callable bind_wasm_callable(name) returned succeeds
\* exactly when call_wasm(name, args) succeeds in the same Store state,
\* returns the same values and leaves the Store in the same state, for
\* every export name and every argument list, shorter, as long as or longer
\* than the export's parameter list.
C33_CallableEquivalent ==
  [][cret'.op = "invoke" =>
       LET o == CallWasmOutcome(cret'.name, cret'.args, globals) IN
         /\ cret'.st = o.st
         /\ cret'.val = o.val
         /\ globals' = o.g]_callVars

(***************************************************************************)
(* The arr.* host functions of the godot module: v is a reference to a     *)
(* VariantArray, shared with the host, i and n are 32-bit integers and x   *)
(* is a reference to the value.                                            *)
(***************************************************************************)
MaxItems == 2
I32Bits == 3
I32Mod == 2 ^ I32Bits
I32_MAX == (I32Mod \div 2) - 1
I32_MIN == - (I32Mod \div 2)
I32 == I32_MIN..I32_MAX

\* Two's complement: what a sum is without overflow checks.
WrapI32(k) == ((k - I32_MIN) % I32Mod) + I32_MIN

OUT_OF_BOUND == "Out of bound"
ADD_OVERFLOW == "attempt to add with overflow"

\* The references a guest passes for x: null, a Variant, something else.
XRefs == {NullRef, ExternRefNew("Variant", "int:7"), ExternRefNew("i32", "i32:7")}

ArrCall(op, i, x, n, st, num, val) ==
  [op |-> op, i |-> i, n |-> n, x |-> x, st |-> st, num |-> num, val |-> val]

\* v.set(j, x) for j in lo..hi-1, positions counted from 0.
SetRange(v, lo, hi, x) ==
  [k \in 1..Len(v) |-> IF lo < k /\ k <= hi THEN x ELSE v[k]]

\* n copies of x.
Copies(x, n) == [k \in 1..n |-> x]

\* arr.get(v, i)
ArrGet(i) ==
  /\ aret' = IF (i < 0) \/ (i >= Len(items))
             THEN ArrCall("arr.get", i, NullRef, 0, OUT_OF_BOUND, 0, NullRef)
             ELSE ArrCall("arr.get", i, NullRef, 0, "ok", 0,
                          VariantToExternref(items[i + 1]))
  /\ UNCHANGED <<vars, arrRest, items, overflow_panics>>

\* arr.set(v, i, x)
ArrSet(i, x) ==
  LET d == ExternrefToVariant(x) IN
  /\ IF d.st # "ok" THEN
       /\ aret' = ArrCall("arr.set", i, x, 0, d.st, 0, NullRef)
       /\ items' = items
     ELSE IF (i < 0) \/ (i >= Len(items)) THEN
       /\ aret' = ArrCall("arr.set", i, x, 0, OUT_OF_BOUND, 0, NullRef)
       /\ items' = items
     ELSE
       /\ aret' = ArrCall("arr.set", i, x, 0, "ok", 0, NullRef)
       /\ items' = [items EXCEPT ![i + 1] = d.val]
  /\ UNCHANGED <<vars, arrRest, overflow_panics>>

\* The length v.resize(v.len() - n) asks for when n < 0.
ShrinkLen(len, n) == len - n

\* Array::resize: cut at the end, or filled up with nil.
Resize(v, size) ==
  IF size <= Len(v) THEN SubSeq(v, 1, size)
  ELSE v \o Copies(NilVariant, size - Len(v))

\* arr.grow(v, x, n)
ArrGrow(x, n) ==
  LET d == ExternrefToVariant(x)
      len == Len(items) IN
  /\ len + n <= MaxItems
  /\ ShrinkLen(len, n) \in 0..MaxItems
  /\ IF d.st # "ok" THEN
       /\ aret' = ArrCall("arr.grow", 0, x, n, d.st, 0, NullRef)
       /\ items' = items
     ELSE
       /\ items' = IF n > 0 THEN items \o Copies(d.val, n)
                   ELSE IF n < 0 THEN Resize(items, ShrinkLen(len, n))
                   ELSE items
       /\ aret' = ArrCall("arr.grow", 0, x, n, "ok", Len(items'), NullRef)
  /\ UNCHANGED <<vars, arrRest, overflow_panics>>

\* arr.fill(v, i, x, n): i + n is a sum of two i32.
ArrFill(i, x, n) ==
  LET d == ExternrefToVariant(x)
      end == WrapI32(i + n)
      trap(st) == /\ aret' = ArrCall("arr.fill", i, x, n, st, 0, NullRef)
                  /\ items' = items IN
  /\ IF (n < 0) \/ (i < 0) THEN trap(OUT_OF_BOUND)
     ELSE IF i + n \notin I32 /\ overflow_panics THEN trap(ADD_OVERFLOW)
     ELSE IF end > Len(items) THEN trap(OUT_OF_BOUND)
     ELSE IF d.st # "ok" THEN trap(d.st)
     ELSE
       /\ aret' = ArrCall("arr.fill", i, x, n, "ok", 0, NullRef)
       /\ items' = SetRange(items, i, end, d.val)
  /\ UNCHANGED <<vars, arrRest, overflow_panics>>

\* Both builds: with and without overflow checks.
InitArrRef ==
  /\ CoreIdle /\ ArrRestIdle
  /\ items = <<>>
  /\ overflow_panics \in BOOLEAN
  /\ aret = NoArrCall

NextArrRef ==
  \/ \E i \in I32 : ArrGet(i)
  \/ \E i \in I32, x \in XRefs : ArrSet(i, x)
  \/ \E x \in XRefs, n \in I32 : ArrGrow(x, n)
  \/ \E i \in I32, x \in XRefs, n \in I32 : ArrFill(i, x, n)

SpecArrRef == InitArrRef /\ [][NextArrRef]_arrVars

\* The value x stands for, when it stands for one.
Decodes(x) == ExternrefToVariant(x).st = "ok"
Decoded(x) == ExternrefToVariant(x).val

IndexOutside(i, v) == i < 0 \/ i >= Len(v)
RangeInside(i, n, v) == 0 <= i /\ 0 <= n /\ i + n <= Len(v)

\* C37: for a value x that decodes, arr.get(v, i) and arr.set(v, i, x)
\* trap with 'Out of bound' exactly when i < 0 or i >= len(v), and
\* arr.fill(v, i, x, n) traps with 'Out of bound' exactly when [i, i+n) is
\* not inside [0, len(v)], the sum taken as an integer so that pairs whose
\* sum overflows are outside; a call that does not succeed leaves the array
\* unchanged and a successful fill sets exactly positions i..i+n-1 to x.
C37_ArrBounds ==
  [][LET c == aret' IN
     /\ (c.op \in {"arr.get", "arr.set"} /\ Decodes(c.x)) =>
          (c.st = OUT_OF_BOUND <=> IndexOutside(c.i, items))
     /\ (c.op = "arr.fill" /\ Decodes(c.x)) =>
          /\ c.st = OUT_OF_BOUND <=> ~RangeInside(c.i, c.n, items)
          /\ c.st = "ok" => items' = SetRange(items, c.i, c.i + c.n, Decoded(c.x))
     /\ (c.op \in {"arr.get", "arr.set", "arr.fill"} /\ c.st # "ok") =>
          items' = items]_arrVars

\* C38: arr.grow(v, x, n) returns the length after the call, which is the
\* length before plus n: n > 0 appends n copies of x, n = 0 changes
\* nothing, n < 0 removes |n| trailing elements and never makes the array
\* longer.
C38_GrowByN ==
  [][LET c == aret' IN
     (c.op = "arr.grow" /\ c.st = "ok") =>
       /\ c.num = Len(items')
       /\ Len(items') = Len(items) + c.n
       /\ c.n > 0 => items' = items \o Copies(Decoded(c.x), c.n)
       /\ c.n = 0 => items' = items
       /\ c.n < 0 => /\ items' = SubSeq(items, 1, Len(items) + c.n)
                     /\ Len(items') <= Len(items)]_arrVars

(***************************************************************************)
(* register_functions of the object-registry array bridge: one func_wrap   *)
(* per function, each unwrapped.                                           *)
(***************************************************************************)
GODOT_MODULE == "godot"

\* The names in the order register_functions defines them.
ArrayFns ==
  <<"array.new", "array.len", "array.len", "array.get", "array.set", "array.count",
    "array.contains", "array.find", "array.rfind", "array.find_last",
    "array.invert", "array.sort", "array.duplicate", "array.clear",
    "array.remove", "array.erase", "array.resize", "array.push", "array.pop",
    "array.push_front", "array.pop_front", "array.insert">>

\* What other registration may have defined in the linker before: names of
\* the godot namespace and of a host table.
PriorDefs == {<<GODOT_MODULE, "arr.get">>, <<GODOT_MODULE, "arr.set">>,
              <<"host", "array.len">>}

\* Linker::func_wrap: Err for a pair that is defined, unless shadowing is
\* allowed.
Rejects(key) == key \in defined /\ ~allow_shadowing

\* The next linker.func_wrap(OBJREGISTRY_MODULE, name, ..).unwrap() of
\* register_functions.
FuncWrapUnwrap ==
  LET key == <<OBJREGISTRY_MODULE, ArrayFns[at_def + 1]>> IN
  /\ dret = "none"
  /\ at_def < Len(ArrayFns)
  /\ IF Rejects(key) THEN
       /\ dret' = "panic"
       /\ UNCHANGED <<defined, at_def>>
     ELSE
       /\ defined' = defined \cup {key}
       /\ at_def' = at_def + 1
       /\ dret' = IF at_def' = Len(ArrayFns) THEN "done" ELSE "none"
  /\ UNCHANGED <<vars, defRest, allow_shadowing>>

InitDef ==
  /\ CoreIdle /\ DefRestIdle
  /\ defined \in SUBSET PriorDefs
  /\ allow_shadowing \in BOOLEAN
  /\ at_def = 0
  /\ dret = "none"

NextDef == FuncWrapUnwrap

SpecDef == InitDef /\ [][NextDef]_defVars

\* C39: against a linker that rejects a second definition of the same
\* (namespace, name), every definition register_functions makes is accepted
\* and registration does not panic: no name of the object-registry
\* namespace is defined twice.
C39_RegistrationCompletes ==
  ~allow_shadowing =>
    /\ dret # "panic"
    /\ (dret = "none" /\ at_def < Len(ArrayFns)) =>
         <<OBJREGISTRY_MODULE, ArrayFns[at_def + 1]>> \notin defined
====
